---- MODULE Spec2Model ----
(***************************************************************************)
(* A model of the research-copilot agent core: the orchestrator's          *)
(* tool-calling loop (src/src/agent/orchestrator.py), the tool-call parser *)
(* (src/src/agent/parser.py), the tool-result formatter                    *)
(* (src/src/agent/prompts.py) and the tool client's call_tool              *)
(* (src/src/clients/mcp_client.py).                                        *)
(*                                                                         *)
(* Text is a sequence of tokens.  A token is a string that stands for one  *)
(* indivisible piece of text: a tag, a run of whitespace, a plain word, or *)
(* a JSON payload.  Python's None is the empty sequence and a present      *)
(* optional value v is <<v>>.                                              *)
(***************************************************************************)
EXTENDS Integers, Sequences, FiniteSets, TLC

\* ------------------------------------------------------------------ bounds
\* departures from the nominal run in one behaviour: a further research()
\* call, another query or other callbacks, a failing LM request, an answer of
\* the tool server other than the tool's nominal payload, a follow-up reply
\* other than three questions
MaxVariety == 2

\* ------------------------------------------------------- program constants
MAX_TOOL_ITERATIONS == 5
VALID_TOOLS == {"web_search", "fetch_page", "save_note", "list_notes", "get_note"}
RESEARCH_MODES == {"quick", "deep"}

None == <<>>
Some(v) == <<v>>
EmptyDict == [k \in {} |-> 0]
Get(d, key, default) == IF key \in DOMAIN d THEN d[key] ELSE default
\* the slice s[:n]
Take(s, n) == SubSeq(s, 1, IF Len(s) < n THEN Len(s) ELSE n)

\* ---------------------------------------------------------------- text
OPEN == "<tool_call>"
OPEN_UC == "<TOOL_CALL>"
CLOSE == "</tool_call>"
WS == " "
\* the character U+274C that opens an error message of the UI
CROSS_MARK == "<U+274C>"

\* TOOL_CALL_PATTERN is compiled with re.IGNORECASE: both spellings open a region
IsOpenTag(t) == t \in {OPEN, OPEN_UC}
IsCloseTag(t) == t = CLOSE

RECURSIVE Strip(_)
\* str.strip(): leading and trailing whitespace removed
Strip(s) ==
    IF s = <<>> THEN s
    ELSE IF Head(s) = WS THEN Strip(Tail(s))
    ELSE IF s[Len(s)] = WS THEN Strip(SubSeq(s, 1, Len(s) - 1))
    ELSE s

\* `sub in text` for a one-token substring
Contains(text, tok) == \E i \in 1..Len(text) : text[i] = tok

\* text.split(tok)[0]: the text before the first occurrence of tok
SplitFirst(text, tok) ==
    IF Contains(text, tok)
    THEN LET i == CHOOSE j \in 1..Len(text) :
                      text[j] = tok /\ \A h \in 1..(j - 1) : text[h] # tok
         IN SubSeq(text, 1, i - 1)
    ELSE text

\* -------------------------------------------------------------- parser
\* json.loads of a payload token; a token outside this table and outside
\* JsonNonObjects is not JSON.  "arguments_other" marks an arguments field
\* that is present but is not an object.
JsonObjects ==
    [tok \in {"{web_search}", "{fetch_page}", "{fetch_page_md}", "{get_note}",
              "{save_note}", "{list_notes}", "{summarize}", "{noname}", "{name:''}",
              "{args:1}"} |->
        CASE tok = "{web_search}" -> [name |-> "web_search", arguments |-> [query |-> "X"]]
          [] tok = "{fetch_page}" -> [name |-> "fetch_page", arguments |-> [url |-> "u1"]]
          [] tok = "{fetch_page_md}" ->
                 [name |-> "fetch_page",
                  arguments |-> [url |-> "u3", extract_mode |-> "markdown"]]
          [] tok = "{get_note}" -> [name |-> "get_note", arguments |-> [id |-> "n1"]]
          [] tok = "{save_note}" ->
                 [name |-> "save_note", arguments |-> [title |-> "N", content |-> "c"]]
          [] tok = "{list_notes}" -> [name |-> "list_notes"]
          [] tok = "{summarize}" -> [name |-> "summarize", arguments |-> EmptyDict]
          [] tok = "{noname}" -> [arguments |-> EmptyDict]
          [] tok = "{name:''}" -> [name |-> "", arguments |-> EmptyDict]
          [] tok = "{args:1}" -> [name |-> "web_search", arguments_other |-> TRUE]]

\* JSON texts that load, but not to an object
JsonNonObjects == {"[1]", "7"}

\* isinstance(data.get("arguments", {}), dict)
DictArgs(data) == "arguments_other" \notin DOMAIN data

\* the (start, end) token positions of the first complete region at or after
\* `from`: the first opening tag that has a closing tag after it, up to the
\* nearest such closing tag (the pattern's .*? is lazy); <<0, 0>> when none
FirstRegion(text, from) ==
    LET opens == {i \in from..Len(text) :
                     IsOpenTag(text[i]) /\ \E j \in (i + 1)..Len(text) : IsCloseTag(text[j])}
    IN IF opens = {} THEN <<0, 0>>
       ELSE LET i == CHOOSE a \in opens : \A b \in opens : a <= b
                j == CHOOSE a \in (i + 1)..Len(text) :
                        IsCloseTag(text[a]) /\ \A b \in (i + 1)..(a - 1) : ~IsCloseTag(text[b])
            IN <<i, j>>

RECURSIVE Regions(_, _)
\* TOOL_CALL_PATTERN.finditer(text): the non-overlapping regions, left to right
Regions(text, from) ==
    LET m == FirstRegion(text, from)
    IN IF m = <<0, 0>> THEN <<>> ELSE <<m>> \o Regions(text, m[2] + 1)

\* match.group(1).strip(): the payload between the tags
RegionPayload(text, m) == Strip(SubSeq(text, m[1] + 1, m[2] - 1))

\* _parse_single_tool_call: Some(ToolCall), or None where the code raises
\* ValidationError (invalid JSON, not an object, no string name, arguments
\* present but not an object)
parse_single_tool_call(raw_json) ==
    IF Len(raw_json) # 1 THEN None
    ELSE IF raw_json[1] \in JsonNonObjects THEN None
    ELSE IF raw_json[1] \notin DOMAIN JsonObjects THEN None
    ELSE LET data == JsonObjects[raw_json[1]]
         IN IF "name" \notin DOMAIN data \/ data.name = "" THEN None
            ELSE IF ~DictArgs(data) THEN None
            ELSE Some([name |-> data.name,
                       arguments |-> Get(data, "arguments", EmptyDict)])

RECURSIVE ParseRegions(_, _)
\* the loop over matches: a region that does not parse is skipped
ParseRegions(text, ms) ==
    IF ms = <<>> THEN <<>>
    ELSE parse_single_tool_call(RegionPayload(text, Head(ms))) \o ParseRegions(text, Tail(ms))

\* parse_tool_calls giving up on an output that has an invalid region
parse_tool_calls_AllOrNothing(text) ==
    LET ms == Regions(text, 1)
    IN IF \E i \in 1..Len(ms) : parse_single_tool_call(RegionPayload(text, ms[i])) = None
       THEN <<>>
       ELSE ParseRegions(text, ms)

\* parse_tool_calls(text).tool_calls
parse_tool_calls(text) == ParseRegions(text, Regions(text, 1))

\* INCOMPLETE_TOOL_CALL_PATTERN.search(text): the position of the first
\* opening tag that no closing tag follows, 0 when there is none
IncompleteAt(text) ==
    LET hits == {i \in 1..Len(text) :
                    IsOpenTag(text[i]) /\ \A j \in (i + 1)..Len(text) : ~IsCloseTag(text[j])}
    IN IF hits = {} THEN 0 ELSE CHOOSE a \in hits : \A b \in hits : a <= b

\* parse_tool_calls that looks for an unterminated tag only when the text has
\* no complete region
ParseResult_NoTail(text) ==
    LET ms == Regions(text, 1)
    IN IF ms = <<>>
       THEN [tool_calls |-> <<>>,
             text_before |-> Strip(IF IncompleteAt(text) # 0
                                   THEN SubSeq(text, 1, IncompleteAt(text) - 1) ELSE text),
             text_after |-> <<>>,
             has_incomplete |-> IncompleteAt(text) # 0]
       ELSE [tool_calls |-> ParseRegions(text, ms),
             text_before |-> Strip(SubSeq(text, 1, ms[1][1] - 1)),
             text_after |-> Strip(SubSeq(text, ms[Len(ms)][2] + 1, Len(text))),
             has_incomplete |-> FALSE]

\* parse_tool_calls(text): the whole ParseResult
ParseResult(text) ==
    LET ms == Regions(text, 1)
    IN IF ms = <<>>
       THEN [tool_calls |-> <<>>,
             text_before |-> Strip(IF IncompleteAt(text) # 0
                                   THEN SubSeq(text, 1, IncompleteAt(text) - 1) ELSE text),
             text_after |-> <<>>,
             has_incomplete |-> IncompleteAt(text) # 0]
       ELSE LET text_after == Strip(SubSeq(text, ms[Len(ms)][2] + 1, Len(text)))
            IN [tool_calls |-> ParseRegions(text, ms),
                text_before |-> Strip(SubSeq(text, 1, ms[1][1] - 1)),
                text_after |-> text_after,
                has_incomplete |-> IncompleteAt(text_after) # 0]

\* ------------------------------------------------------------ tool server
\* What the tool server may answer to one tools/call request.  An "http"
\* reply carries a status and, for status 200, the JSON body; the other kinds
\* are what client.post raises or how the awaiting task is interrupted.
NominalPayload(name) ==
    CASE name = "web_search" ->
             [results |-> <<[url |-> "u1", title |-> "A"], [title |-> "NoUrl"],
                            [url |-> "u2", title |-> "B"], [url |-> "u1", title |-> "A2"]>>]
      [] name = "fetch_page" -> [url |-> "u3", title |-> "C", content |-> "c"]
      [] name = "get_note" -> [note |-> [title |-> "N", source_urls |-> <<"u2", "u3">>]]
      [] name = "save_note" -> [note |-> [id |-> "n1", title |-> "N"]]
      [] OTHER -> [notes |-> <<>>, count |-> "0"]

OtherPayloads(name) ==
    CASE name = "web_search" -> {EmptyDict}
      [] name = "fetch_page" -> {[title |-> "NoUrl"], [url |-> "u2", title |-> "B1"]}
      [] name = "get_note" -> {[note |-> [title |-> "N"]]}
      [] OTHER -> {}

Http200(body) == [kind |-> "http", status |-> "200", body |-> body]
NominalReply(name) == Http200([result |-> NominalPayload(name)])

\* a success payload other than the nominal one, or a failure call_tool reports
OffNominalReplies(name) ==
    {Http200([result |-> p]) : p \in OtherPayloads(name)}
    \cup {Http200([error |-> [message |-> <<"boom">>]]),
          Http200([error |-> [message |-> <<"boom">>, data |-> "d"]]),
          Http200([error |-> EmptyDict]),
          [kind |-> "http", status |-> "500"],
          [kind |-> "ConnectError"],
          [kind |-> "TimeoutException"]}

\* answers after which research() does not go on: a body with neither a
\* result nor a usable error, an error object whose message is empty, an
\* httpx error call_tool does not catch, and the caller's cancellation
AbortingReplies ==
    {Http200(EmptyDict),
     Http200([error |-> [message |-> <<>>]]),
     [kind |-> "ReadError"],
     [kind |-> "CancelledError"]}

\* ------------------------------------------------------------ tool client
\* _parse_jsonrpc_response: <<result, error_message>>, each None or Some
parse_jsonrpc_response(response_data) ==
    IF "error" \in DOMAIN response_data
    THEN LET error == response_data["error"]
             error_message == Get(error, "message", <<"Unknown error">>)
         IN <<None,
              Some(IF "data" \in DOMAIN error
                   THEN error_message \o <<": ", error["data"]>>
                   ELSE error_message)>>
    ELSE <<IF "result" \in DOMAIN response_data THEN Some(response_data["result"]) ELSE None,
           None>>

\* Python truth of an Optional[str]: None and "" are false
Truthy(opt) == opt # None /\ opt[1] # <<>>

\* _make_jsonrpc_request always generating an id of its own
make_jsonrpc_request_OwnId(method, params, request_id) ==
    [method |-> method, params |-> params, id |-> -1]

\* the JSON-RPC request call_tool posts
make_jsonrpc_request(method, params, request_id) ==
    [method |-> method, params |-> params,
     id |-> IF request_id # 0 THEN request_id ELSE -1]

\* call_tool without its handlers for httpx.ConnectError and TimeoutException
call_tool_Unwrapped(tool_name, reply) ==
    IF reply.kind = "http"
    THEN IF reply.status # "200"
         THEN [kind |-> "raise", exc |-> "MCPError",
               message |-> <<"MCP server returned status ", reply.status>>]
         ELSE LET parsed == parse_jsonrpc_response(reply.body)
              IN IF Truthy(parsed[2])
                 THEN [kind |-> "ToolResult", success |-> FALSE, data |-> None,
                       error |-> parsed[2]]
                 ELSE [kind |-> "ToolResult", success |-> TRUE, data |-> parsed[1],
                       error |-> None]
    ELSE [kind |-> "raise", exc |-> reply.kind, message |-> <<>>]

\* call_tool(tool_name, arguments, request_id) on the server's reply:
\* [kind |-> "ToolResult", ...] returned, or [kind |-> "raise", ...]
call_tool(tool_name, reply) ==
    IF reply.kind = "http"
    THEN IF reply.status # "200"
         THEN [kind |-> "raise", exc |-> "MCPError",
               message |-> <<"MCP server returned status ", reply.status>>]
         ELSE LET parsed == parse_jsonrpc_response(reply.body)
              IN IF Truthy(parsed[2])
                 THEN [kind |-> "ToolResult", success |-> FALSE, data |-> None,
                       error |-> parsed[2]]
                 ELSE [kind |-> "ToolResult", success |-> TRUE, data |-> parsed[1],
                       error |-> None]
    ELSE IF reply.kind = "ConnectError"
    THEN [kind |-> "raise", exc |-> "MCPError", message |-> <<"Cannot connect to MCP server">>]
    ELSE IF reply.kind = "TimeoutException"
    THEN [kind |-> "raise", exc |-> "MCPError",
          message |-> <<"MCP tool '", tool_name, "' timed out">>]
    ELSE [kind |-> "raise", exc |-> reply.kind, message |-> <<>>]

\* ---------------------------------------------------------------- prompts
\* build_system_prompt(research_mode): the fixed template, then the mode's
\* directive (get_mode_by_key falls back to the quick mode)
build_system_prompt(research_mode) ==
    <<"SYSTEM_PROMPT_TEMPLATE",
      IF research_mode = "deep" THEN "deep_mode.md" ELSE "quick_mode.md">>

RECURSIVE FormatSearchItems(_)
FormatSearchItems(results) ==
    IF results = <<>> THEN <<>>
    ELSE <<"[i] ", Get(Head(results), "title", "Untitled"),
           "URL: ", Get(Head(results), "url", "")>> \o FormatSearchItems(Tail(results))

\* _format_result_content(tool_name, result) for the whitelisted tools
format_result_content(tool_name, result) ==
    CASE tool_name = "web_search" ->
             IF Get(result, "results", <<>>) = <<>> THEN <<"No results found.">>
             ELSE <<"Found n results:">> \o FormatSearchItems(result.results)
      [] tool_name = "fetch_page" ->
             <<"Title: ", Get(result, "title", "Untitled"), "URL: ", Get(result, "url", ""),
               "Content:", Get(result, "content", "")>>
      [] tool_name = "save_note" -> <<"Note saved successfully.">>
      [] tool_name = "list_notes" ->
             IF Get(result, "notes", <<>>) = <<>> THEN <<"No notes found.">>
             ELSE <<"Found n notes:">>
      [] tool_name = "get_note" ->
             <<"Title: ", Get(Get(result, "note", EmptyDict), "title", "None"), "Content:">>
             \o (IF Get(Get(result, "note", EmptyDict), "source_urls", <<>>) = <<>> THEN <<>>
                 ELSE <<"Sources:">> \o result.note.source_urls)
      [] OTHER -> <<"json.dumps">>

\* format_tool_result with a failure formatted as a result
format_tool_result_AsResult(tool_name, result, success) ==
    IF success /\ result = None THEN None
    ELSE Some(<<"<tool_result name=", tool_name, ">">>
              \o (IF success THEN format_result_content(tool_name, result[1])
                  ELSE Get(result[1], "message", <<"Unknown error">>))
              \o <<"</tool_result>">>)

\* format_tool_result(tool_name, result, success), result an Optional dict.
\* None where the code raises AttributeError (result is None and success)
format_tool_result(tool_name, result, success) ==
    IF success
    THEN IF result = None THEN None
         ELSE Some(<<"<tool_result name=", tool_name, ">">>
                   \o format_result_content(tool_name, result[1])
                   \o <<"</tool_result>">>)
    ELSE Some(<<"<tool_error name=", tool_name, " code=",
                Get(result[1], "code", "error"), ">">>
              \o Get(result[1], "message", <<"Unknown error">>)
              \o <<"</tool_error>">>)

RECURSIVE JoinResults(_)
\* "\n\n".join(tool_results)
JoinResults(tool_results) ==
    IF tool_results = <<>> THEN <<>>
    ELSE IF Len(tool_results) = 1 THEN Head(tool_results)
    ELSE Head(tool_results) \o <<"\n\n">> \o JoinResults(Tail(tool_results))

\* ---------------------------------------------------------- orchestrator
VARIABLES
    conversation_history,   \* Orchestrator.conversation_history: list of Message
    request_id,             \* Orchestrator._request_id: 0 is "", n >= 1 the n-th uuid
    research_mode,          \* Orchestrator.research_mode
    fetch_extract_mode,     \* Orchestrator.fetch_extract_mode
    model,                  \* Orchestrator.model
    temperature,            \* Orchestrator.temperature, in tenths
    last_call,              \* the last setter called on the orchestrator, with its argument
    parse_input,            \* the text handed to parse_tool_calls
    parse_result,           \* the ParseResult it returned, None before the call
    cited_content,          \* the content the citation functions are applied to
    cited_sources,          \* the source list given to add_citations_to_content
    citation_mapping,       \* the old -> new mapping renumber_citations returned last
    citation_op,            \* the citation function applied last, "" before any
    local,                  \* per running research() coroutine: its locals and position
    nextId,                 \* the number of uuids drawn so far
    variety,                \* departures from the nominal run still allowed
    ollama,                 \* an OllamaClient: its HTTP clients and its chat() call
    mcp,                    \* an MCPClient: its HTTP clients and its call_tool() call
    api                     \* a ResearchAPI.research() call

vars == <<conversation_history, request_id, research_mode, fetch_extract_mode, model,
          temperature, last_call, parse_input, parse_result, cited_content, cited_sources,
          citation_mapping, citation_op, local, nextId, variety,
          ollama, mcp, api>>

\* the coroutines that may run research() on the one orchestrator
Tasks == {1, 2}

Msg(role, content) == [role |-> role, content |-> content]

FORCE_SUMMARY_PROMPT == <<"Based on all the information gathered above, ...">>
DIAG_EMPTY_SUMMARY == <<"I gathered information from multiple sources but ...">>
DIAG_SUMMARY_FAILED == <<"Research completed but summary generation failed. ...">>

\* the callbacks a caller passes to research(): each absent ("none"),
\* well-behaved ("ok") or raising when invoked ("raises")
Callbacks(s, c, t) == [on_tool_start |-> s, on_tool_complete |-> c, on_text_chunk |-> t]
NoCallbacks == Callbacks("none", "none", "none")
RaisingCallbacks ==
    {Callbacks("raises", "ok", "ok"), Callbacks("ok", "raises", "ok"),
     Callbacks("ok", "ok", "raises")}
CallbackProfiles == {NoCallbacks, Callbacks("ok", "ok", "ok")} \cup RaisingCallbacks

\* the locals of a coroutine that is not inside research()
IdleLocal ==
    [pc |-> "idle", query |-> <<>>, cb |-> NoCallbacks, hist0 |-> <<>>, rid0 |-> 0,
     messages |-> <<>>, iterations |-> 0, llm_response |-> <<>>, calls |-> <<>>, k |-> 0,
     tool_results |-> <<>>, tool_trace |-> <<>>, sources |-> <<>>,
     final_response |-> <<>>, deduplicated_sources |-> <<>>, exc |-> "",
     response |-> None, mcpLog |-> <<>>, cbLog |-> <<>>, lmLog |-> <<>>, lmOut |-> <<>>,
     current_response |-> <<>>, yielded |-> <<>>]

\* `raise`: the exception leaves research()
Raise(loc, exc) == [loc EXCEPT !.pc = "raised", !.exc = exc]

\* `if cb: cb(...)`: an absent callback is skipped, a present one receives the
\* event and may raise; nothing around the call catches what it raises
Fire(loc, which, event) ==
    IF loc.cb[which] = "none" THEN loc
    ELSE IF loc.cb[which] = "raises"
    THEN Raise([loc EXCEPT !.cbLog = Append(@, event)], "CallbackError")
    ELSE [loc EXCEPT !.cbLog = Append(@, event)]

\* an on_tool_complete that always reports success
CompleteEvent_AlwaysSuccess(name, result, success) ==
    [ev |-> "on_tool_complete", name |-> name, result |-> result, success |-> TRUE]

StartEvent(tc) == [ev |-> "on_tool_start", name |-> tc.name, arguments |-> tc.arguments]
CompleteEvent(name, result, success) ==
    [ev |-> "on_tool_complete", name |-> name, result |-> result, success |-> success]
ChunkEvent(chunk) == [ev |-> "on_text_chunk", chunk |-> chunk]

\* an await of the LM client: the request is logged, the coroutine suspends
RequestLLM(loc, kind) == [loc EXCEPT !.lmLog = Append(@, kind), !.pc = kind]

RECURSIVE extract_web_search(_)
extract_web_search(results) ==
    IF results = <<>> THEN <<>>
    ELSE <<[url |-> Get(Head(results), "url", ""), title |-> Get(Head(results), "title", ""),
            tool |-> "web_search"]>> \o extract_web_search(Tail(results))

RECURSIVE extract_get_note(_)
extract_get_note(urls) ==
    IF urls = <<>> THEN <<>>
    ELSE <<[url |-> Head(urls), title |-> "From saved note", tool |-> "get_note"]>>
         \o extract_get_note(Tail(urls))

\* _extract_sources(tool_name, result)
extract_sources(tool_name, result) ==
    CASE tool_name = "web_search" -> extract_web_search(Get(result, "results", <<>>))
      [] tool_name = "fetch_page" ->
             <<[url |-> Get(result, "url", ""), title |-> Get(result, "title", ""),
                tool |-> "fetch_page"]>>
      [] tool_name = "get_note" ->
             extract_get_note(Get(Get(result, "note", EmptyDict), "source_urls", <<>>))
      [] OTHER -> <<>>

RECURSIVE DedupFrom(_, _)
DedupFrom(sources, seen_urls) ==
    IF sources = <<>> THEN <<>>
    ELSE IF Head(sources).url # "" /\ Head(sources).url \notin seen_urls
    THEN <<Head(sources)>> \o DedupFrom(Tail(sources), seen_urls \cup {Head(sources).url})
    ELSE DedupFrom(Tail(sources), seen_urls)

\* _deduplicate_sources keeping every source
deduplicate_sources_KeepAll(sources) == sources

\* _deduplicate_sources(sources)
deduplicate_sources(sources) == DedupFrom(sources, {})

\* UnknownToolExecution with a measured duration
UnknownToolExecution_Timed(tc, rid) ==
    [tool_name |-> tc.name, arguments |-> tc.arguments, result |-> None,
     error |-> Some(<<"Unknown tool: ", tc.name, ". Valid tools: ...">>),
     success |-> FALSE, duration_ms |-> 1, request_id |-> rid]

\* the ToolExecution of a call whose name is not in VALID_TOOLS
UnknownToolExecution(tc, rid) ==
    [tool_name |-> tc.name, arguments |-> tc.arguments, result |-> None,
     error |-> Some(<<"Unknown tool: ", tc.name, ". Valid tools: ...">>),
     success |-> FALSE, duration_ms |-> 0, request_id |-> rid]

\* the ToolExecution of a ToolResult with success; duration 1 stands for the
\* measured wall-clock time
SuccessExecution(tc, data, rid) ==
    [tool_name |-> tc.name, arguments |-> tc.arguments, result |-> data, error |-> None,
     success |-> TRUE, duration_ms |-> 1, request_id |-> rid]

\* the ToolExecution of a ToolResult without success, and of an MCPError
ErrorExecution(tc, error, rid) ==
    [tool_name |-> tc.name, arguments |-> tc.arguments, result |-> None,
     error |-> Some(error), success |-> FALSE, duration_ms |-> 1, request_id |-> rid]

\* an injection that sets extract_mode on every fetch_page call
InjectDefaults_Overwrite(tc, fem) ==
    IF tc.name = "fetch_page"
    THEN [tc EXCEPT !.arguments =
                        [key \in DOMAIN tc.arguments \cup {"extract_mode"} |->
                            IF key = "extract_mode" THEN fem ELSE tc.arguments[key]]]
    ELSE tc

\* the default injection of _execute_tool
InjectDefaults(tc, fem) ==
    IF tc.name = "fetch_page" /\ "extract_mode" \notin DOMAIN tc.arguments
    THEN [tc EXCEPT !.arguments = @ @@ ("extract_mode" :> fem)]
    ELSE tc

\* RecordExecution with the newest execution put first
RecordExecution_NewestFirst(loc, tc, execution) ==
    LET b == [loc EXCEPT
                !.tool_trace = <<execution>> \o @,
                !.sources = @ \o (IF execution.success /\ execution.result # None
                                     /\ execution.result[1] # EmptyDict
                                  THEN extract_sources(tc.name, execution.result[1])
                                  ELSE <<>>)]
        result_text ==
            format_tool_result(
                tc.name,
                IF execution.success THEN execution.result
                ELSE Some([message |-> execution.error[1], code |-> "error"]),
                execution.success)
    IN IF result_text = None THEN Raise(b, "AttributeError")
       ELSE [b EXCEPT !.tool_results = <<result_text[1]>> \o @, !.k = @ + 1]

\* research(): what follows `execution = await self._execute_tool(...)` for
\* one call: trace, sources, the formatted result
RecordExecution(loc, tc, execution) ==
    LET b == [loc EXCEPT
                !.tool_trace = Append(@, execution),
                !.sources = @ \o (IF execution.success /\ execution.result # None
                                     /\ execution.result[1] # EmptyDict
                                  THEN extract_sources(tc.name, execution.result[1])
                                  ELSE <<>>)]
        result_text ==
            format_tool_result(
                tc.name,
                IF execution.success THEN execution.result
                ELSE Some([message |-> execution.error[1], code |-> "error"]),
                execution.success)
    IN IF result_text = None THEN Raise(b, "AttributeError")
       ELSE [b EXCEPT !.tool_results = Append(@, result_text[1]), !.k = @ + 1]

\* _execute_tool for a name outside the whitelist: no await, no tool client
ExecuteUnknown(loc, tc, rid) ==
    LET a == Fire(loc, "on_tool_complete", CompleteEvent(tc.name, Some(EmptyDict), FALSE))
    IN IF a.pc = "raised" THEN a ELSE RecordExecution(a, tc, UnknownToolExecution(tc, rid))

\* _execute_tool for a whitelisted name, up to `await self.mcp.call_tool(...)`
BeginInvoke(loc, tc0, rid, fem) ==
    LET tc == InjectDefaults(tc0, fem)
        a == Fire([loc EXCEPT !.calls[loc.k] = tc], "on_tool_start", StartEvent(tc))
    IN IF a.pc = "raised" THEN a
       ELSE [a EXCEPT
               !.mcpLog = Append(@, make_jsonrpc_request(
                                        "tools/call",
                                        [name |-> tc.name, arguments |-> tc.arguments],
                                        rid)),
               !.pc = "exec"]

\* the deduplication and the await of the follow-up generator's LM call; the
\* two appends to conversation_history that precede them are in Commit
Finalize(loc) ==
    RequestLLM([loc EXCEPT !.deduplicated_sources = deduplicate_sources(loc.sources)],
               "followup")

\* the request for a summary made with a system message
AfterLoop_AsSystem(loc) ==
    IF loc.final_response = <<>>
    THEN RequestLLM([loc EXCEPT !.messages = Append(@, Msg("system", FORCE_SUMMARY_PROMPT))],
                    "summary")
    ELSE Finalize(loc)

\* research() after the while loop
AfterLoop(loc) ==
    IF loc.final_response = <<>>
    THEN RequestLLM([loc EXCEPT !.messages = Append(@, Msg("user", FORCE_SUMMARY_PROMPT))],
                    "summary")
    ELSE Finalize(loc)

\* EndTurn keeping only the text before the first tool call in the assistant
\* message
EndTurn_TextOnly(loc) ==
    LET a == [loc EXCEPT
                !.messages = @ \o <<Msg("assistant", ParseResult(loc.llm_response).text_before),
                                    Msg("user", <<"Tool results:\n\n">>
                                                \o JoinResults(loc.tool_results))>>]
    IN IF a.iterations < MAX_TOOL_ITERATIONS
       THEN RequestLLM([a EXCEPT !.iterations = @ + 1], "think")
       ELSE AfterLoop(a)

\* EndTurn of a loop that only a tool-less reply ends
EndTurn_NoCeiling(loc) ==
    RequestLLM([loc EXCEPT
                  !.messages = @ \o <<Msg("assistant", loc.llm_response),
                                      Msg("user", <<"Tool results:\n\n">>
                                                  \o JoinResults(loc.tool_results))>>,
                  !.iterations = @ + 1],
               "think")

\* EndTurn with the loop condition `iterations <= MAX_TOOL_ITERATIONS`
EndTurn_OneMoreTurn(loc) ==
    LET a == [loc EXCEPT
                !.messages = @ \o <<Msg("assistant", loc.llm_response),
                                    Msg("user", <<"Tool results:\n\n">>
                                                \o JoinResults(loc.tool_results))>>]
    IN IF a.iterations <= MAX_TOOL_ITERATIONS
       THEN RequestLLM([a EXCEPT !.iterations = @ + 1], "think")
       ELSE AfterLoop(a)

\* the end of a turn that dispatched tool calls, and the loop condition
EndTurn(loc) ==
    LET a == [loc EXCEPT
                !.messages = @ \o <<Msg("assistant", loc.llm_response),
                                    Msg("user", <<"Tool results:\n\n">>
                                                \o JoinResults(loc.tool_results))>>]
    IN IF a.iterations < MAX_TOOL_ITERATIONS
       THEN RequestLLM([a EXCEPT !.iterations = @ + 1], "think")
       ELSE AfterLoop(a)

RECURSIVE RunCalls(_, _, _)
\* `for tool_call in parse_result.tool_calls`, from call k up to the next await
RunCalls(loc, rid, fem) ==
    IF loc.pc = "raised" THEN loc
    ELSE IF loc.k > Len(loc.calls) THEN EndTurn(loc)
    ELSE IF loc.calls[loc.k].name \notin VALID_TOOLS
    THEN RunCalls(ExecuteUnknown(loc, loc.calls[loc.k], rid), rid, fem)
    ELSE BeginInvoke(loc, loc.calls[loc.k], rid, fem)

\* _execute_tool after the tool client has answered (or raised)
FinishInvoke(loc, reply, rid) ==
    LET tc == loc.calls[loc.k]
        out == call_tool(tc.name, reply)
    IN IF out.kind = "raise" /\ out.exc # "MCPError" THEN Raise(loc, out.exc)
       ELSE IF out.kind = "raise"
       THEN LET a == Fire(loc, "on_tool_complete",
                          CompleteEvent(tc.name, Some(EmptyDict), FALSE))
            IN IF a.pc = "raised" THEN a
               ELSE RecordExecution(a, tc, ErrorExecution(tc, out.message, rid))
       ELSE LET execution ==
                    IF out.success THEN SuccessExecution(tc, out.data, rid)
                    ELSE ErrorExecution(
                             tc,
                             IF Truthy(out.error) THEN out.error[1] ELSE <<"Unknown error">>,
                             rid)
                a == Fire(loc, "on_tool_complete",
                          CompleteEvent(tc.name,
                                        IF out.success THEN out.data ELSE Some(EmptyDict),
                                        out.success))
            IN IF a.pc = "raised" THEN a ELSE RecordExecution(a, tc, execution)

RECURSIVE FireChunks(_, _)
\* _get_llm_response with on_chunk: every chunk goes to the callback
FireChunks(loc, chunks) ==
    IF chunks = <<>> \/ loc.pc = "raised" THEN loc
    ELSE FireChunks(Fire(loc, "on_text_chunk", ChunkEvent(Head(chunks))), Tail(chunks))

\* the loop's LM call streaming to on_text_chunk on every turn
OnLLMResponse_EveryTurn(loc0, R, rid, fem) ==
    LET loc == FireChunks(loc0, R)
        calls == parse_tool_calls(R)
    IN IF loc.pc = "raised" THEN loc
       ELSE IF calls = <<>>
       THEN AfterLoop([loc EXCEPT !.llm_response = R, !.final_response = R])
       ELSE RunCalls([loc EXCEPT !.llm_response = R, !.calls = calls, !.k = 1,
                                 !.tool_results = <<>>],
                     rid, fem)

\* research(): one turn of the loop from the LM's answer to the next await
OnLLMResponse(loc0, R, rid, fem) ==
    LET loc == IF loc0.iterations = 1 THEN FireChunks(loc0, R) ELSE loc0
        calls == parse_tool_calls(R)
    IN IF loc.pc = "raised" THEN loc
       ELSE IF calls = <<>>
       THEN AfterLoop([loc EXCEPT !.llm_response = R, !.final_response = R])
       ELSE RunCalls([loc EXCEPT !.llm_response = R, !.calls = calls, !.k = 1,
                                 !.tool_results = <<>>],
                     rid, fem)

\* the forced summary taken as it comes
OnSummaryResponse_Verbatim(loc, R) ==
    Finalize([loc EXCEPT !.final_response = IF R = <<>> THEN DIAG_EMPTY_SUMMARY ELSE R])

\* research(): the forced-summary reply
OnSummaryResponse(loc, R) ==
    LET stripped == IF Contains(R, OPEN) THEN Strip(SplitFirst(R, OPEN)) ELSE R
    IN Finalize([loc EXCEPT
                   !.final_response =
                       IF stripped = <<>> THEN DIAG_EMPTY_SUMMARY ELSE stripped])

\* ------------------------------------------------------ follow-up questions
\* line.strip().strip('0123456789.-) ').strip()
CleanLine(line) ==
    CASE line = "1. Is Q1 a question?" -> "Is Q1 a question?"
      [] line = "- Is Q2 a question?" -> "Is Q2 a question?"
      [] line = " " -> ""
      [] OTHER -> line

\* q and len(q) > 10 and q.endswith('?')
ValidQuestion(q) ==
    q \in {"Is Q1 a question?", "Is Q2 a question?", "Is Q3 a question?", "Is Q4 a question?"}

RECURSIVE CollectQuestions(_, _)
\* the loop over the reply's lines: at most three valid questions
CollectQuestions(lines, questions) ==
    IF lines = <<>> \/ Len(questions) >= 3 THEN questions
    ELSE CollectQuestions(
             Tail(lines),
             IF ValidQuestion(CleanLine(Head(lines)))
             THEN Append(questions, CleanLine(Head(lines)))
             ELSE questions)

\* _fallback_followup_questions(query)
fallback_followup_questions(query) ==
    <<"What are the pros and cons of {topic}?", "Can you show a practical example?",
      "How does this compare to alternatives?">>

\* _generate_followup_questions after its LM call has answered with `lines`
generate_followup_questions(query, lines) ==
    LET questions == CollectQuestions(lines, <<>>)
    IN IF lines # <<>> /\ questions # <<>> THEN Take(questions, 3)
       ELSE fallback_followup_questions(query)

\* _generate_suggested_title: the query stripped, a leading stock phrase cut,
\* the first letter made a capital ("^" before the text), "Research: " in front
TITLE_PREFIXES == {"what is", "what are", "how to", "how do", "why", "can you"}

generate_suggested_title(query) ==
    LET stripped == Strip(query)
        title == IF stripped # <<>> /\ Head(stripped) \in TITLE_PREFIXES
                 THEN Strip(Tail(stripped)) ELSE stripped
    IN <<"Research: ">> \o (IF title # <<>> THEN <<"^">> \o title ELSE <<>>)

\* research(): the ResearchResponse it returns
Respond(loc, followup_questions, rid) ==
    [loc EXCEPT
       !.pc = "done",
       !.response = Some([content |-> loc.final_response,
                          tool_trace |-> loc.tool_trace,
                          sources |-> loc.deduplicated_sources,
                          request_id |-> rid,
                          can_save_as_note |->
                              loc.final_response # <<>> /\ Head(loc.final_response) # CROSS_MARK,
                          suggested_title |-> generate_suggested_title(loc.query),
                          followup_questions |-> followup_questions])]

RECURSIVE InsertHistory(_, _)
\* `for msg in self.conversation_history: messages.insert(-1, ...)`
InsertHistory(messages, history) ==
    IF history = <<>> THEN messages
    ELSE InsertHistory(
             SubSeq(messages, 1, Len(messages) - 1)
                 \o <<Msg(Head(history).role, Head(history).content)>>
                 \o <<messages[Len(messages)]>>,
             Tail(history))

\* research() from its first line to the first `await`
BeginResearch(query, cb, history, mode, rid) ==
    RequestLLM(
        [IdleLocal EXCEPT
           !.query = query, !.cb = cb, !.hist0 = history, !.rid0 = rid,
           !.messages = InsertHistory(<<Msg("system", build_system_prompt(mode)),
                                        Msg("user", query)>>, history),
           !.iterations = 1],
        "think")

\* ------------------------------------------------------------ environment
\* The nominal run: the caller asks NominalQuery with well-behaved callbacks,
\* every tool call is answered with the tool's nominal payload, no LM request
\* fails and the follow-up generator gets three questions.  Every other
\* choice of the environment, and every research() call after the first,
\* takes one unit of `variety`.
NominalQuery == <<"hello">>
Queries == {NominalQuery, <<"what is", WS, "X?">>}
NominalCallbacks == Callbacks("ok", "ok", "ok")

\* LM outputs.  NominalLM is one well-formed call of a whitelisted tool.
NominalLM == <<OPEN, "{web_search}", CLOSE>>
Answer == <<"Hi", WS, "there.">>
Empty == <<>>
UnknownThenFetch ==
    <<"x", OPEN, "{summarize}", CLOSE, WS, OPEN, WS, "{fetch_page}", WS, CLOSE>>
BadThenNote == <<OPEN, "{bad}", CLOSE, OPEN_UC, "{get_note}", CLOSE, "x">>
FetchThenSave == <<OPEN, "{fetch_page_md}", CLOSE, OPEN, "{save_note}", CLOSE>>
OnlyUnknown == <<OPEN, "{summarize}", CLOSE>>
ManyBadTwoGood ==
    <<OPEN, "{bad}", CLOSE, OPEN, "[1]", CLOSE, OPEN, WS, "{get_note}", WS, CLOSE,
      OPEN, "{noname}", CLOSE, OPEN, "{args:1}", CLOSE, OPEN, "{web_search}", CLOSE>>
OnlyMalformed == <<"x", OPEN, "{bad}", CLOSE>>
Unterminated == <<"x", WS, OPEN, "{web_search}">>
AnswerThenCall == <<"x", WS, OPEN, "{web_search}", CLOSE>>
CallOnly == <<OPEN, "{list_notes}", CLOSE>>
UpperCaseCall == <<"x", OPEN_UC, "{web_search}", CLOSE>>

\* what the LM may answer to the successive requests of one query's
\* conversation (the loop's turns, then the forced summary)
LMScripts ==
    {<<Answer>>,
     <<Empty, Answer>>,
     <<Empty, Empty>>,
     <<OnlyMalformed>>,
     <<Unterminated>>,
     <<NominalLM, Answer>>,
     <<UnknownThenFetch, Answer>>,
     <<BadThenNote, Answer>>,
     <<ManyBadTwoGood, Answer>>,
     <<FetchThenSave, CallOnly, NominalLM, Answer>>,
     <<OnlyUnknown, OnlyUnknown, Answer>>,
     <<NominalLM, NominalLM, NominalLM, NominalLM, NominalLM, Answer>>,
     <<NominalLM, NominalLM, NominalLM, NominalLM, NominalLM, AnswerThenCall>>,
     <<NominalLM, NominalLM, NominalLM, NominalLM, NominalLM, CallOnly>>,
     <<NominalLM, NominalLM, NominalLM, NominalLM, NominalLM, UpperCaseCall>>,
     <<NominalLM, NominalLM, NominalLM, NominalLM, NominalLM, Empty>>}

\* the outputs that may follow the outputs `outs` already given
NextOutputs(outs) ==
    {s[Len(outs) + 1] : s \in {t \in LMScripts :
                                 Len(t) > Len(outs) /\ SubSeq(t, 1, Len(outs)) = outs}}

LMOutputs == UNION {{s[i] : i \in 1..Len(s)} : s \in LMScripts}

\* how an LM request may fail: the client's typed error, another exception
\* (a malformed body), and the cancellation of the awaiting task
LMFailures == {"OllamaError", "ValueError", "CancelledError"}

\* a handler that catches only the typed LM error
IsException_OnlyTyped(e) == e = "OllamaError"

\* except Exception does not catch asyncio.CancelledError (a BaseException)
IsException(e) == e # "CancelledError"

\* the lines of the follow-up generator's LM reply
NominalFollowup == <<"Is Q1 a question?", "Is Q2 a question?", "Is Q3 a question?">>
FollowupReplies ==
    {NominalFollowup,
     <<>>,
     <<"1. Is Q1 a question?", "junk", "short?", "- Is Q2 a question?">>,
     <<"junk">>}

\* Commit, appending the answer without the query
Commit_AssistantOnly(q, n) ==
    /\ local' = [local EXCEPT ![q] = n]
    /\ conversation_history' =
           IF n.pc = "followup"
           THEN Append(conversation_history, Msg("assistant", n.final_response))
           ELSE conversation_history

\* ---------------------------------------------------------------- actions
\* a step that appends the user message when research() begins and the
\* assistant message on the way into the follow-up generator's await
Commit_UserFirst(q, n) ==
    /\ local' = [local EXCEPT ![q] = n]
    /\ conversation_history' =
           IF n.pc = "followup"
           THEN conversation_history \o <<Msg("assistant", n.final_response)>>
           ELSE IF local[q].pc = "idle"
           THEN conversation_history \o <<Msg("user", n.query)>>
           ELSE conversation_history

\* the step of coroutine q to its next await; conversation_history receives
\* its (user, assistant) pair on the way into the follow-up generator's await
Commit(q, n) ==
    /\ local' = [local EXCEPT ![q] = n]
    /\ conversation_history' =
           IF n.pc = "followup"
           THEN conversation_history
                \o <<Msg("user", n.query), Msg("assistant", n.final_response)>>
           ELSE conversation_history

Spend(cost) ==
    /\ cost <= variety
    /\ variety' = variety - cost

\* research(query, on_tool_start, on_tool_complete, on_text_chunk) is called
StartResearch(q, query, cb) ==
    /\ local[q].pc = "idle"
    /\ Spend((IF nextId > 0 THEN 1 ELSE 0) + (IF query # NominalQuery THEN 1 ELSE 0)
             + (IF cb # NominalCallbacks THEN 1 ELSE 0))
    /\ nextId' = nextId + 1
    /\ request_id' = nextId + 1
    /\ Commit(q, BeginResearch(query, cb, conversation_history, research_mode, nextId + 1))
    /\ UNCHANGED <<research_mode, fetch_extract_mode, model, temperature, last_call,
                   parse_input, parse_result, cited_content, cited_sources,
                   citation_mapping, citation_op,
                   ollama, mcp, api>>

\* the LM answers a request of the loop with output R
ThinkReply(q, R) ==
    /\ local[q].pc = "think"
    /\ R \in NextOutputs(local[q].lmOut)
    /\ Commit(q, OnLLMResponse([local[q] EXCEPT !.lmOut = Append(@, R)], R,
                               request_id, fetch_extract_mode))
    /\ UNCHANGED <<request_id, research_mode, fetch_extract_mode, model, temperature,
                   nextId, variety, last_call, parse_input, parse_result, cited_content,
                   cited_sources, citation_mapping, citation_op,
                   ollama, mcp, api>>

\* a request of the loop fails: `except OllamaError: raise`, anything else
\* propagates as well
ThinkFail(q, e) ==
    /\ local[q].pc = "think"
    /\ Spend(1)
    /\ Commit(q, Raise(local[q], e))
    /\ UNCHANGED <<request_id, research_mode, fetch_extract_mode, model, temperature,
                   nextId, last_call, parse_input, parse_result, cited_content,
                   cited_sources, citation_mapping, citation_op,
                   ollama, mcp, api>>

\* the tool server answers (or the call fails) for the call being awaited
ToolReply(q, reply) ==
    /\ local[q].pc = "exec"
    /\ reply \in {NominalReply(local[q].calls[local[q].k].name)}
                 \cup OffNominalReplies(local[q].calls[local[q].k].name)
                 \cup AbortingReplies
    /\ Spend(IF reply = NominalReply(local[q].calls[local[q].k].name) THEN 0 ELSE 1)
    /\ Commit(q, RunCalls(FinishInvoke(local[q], reply, request_id),
                          request_id, fetch_extract_mode))
    /\ UNCHANGED <<request_id, research_mode, fetch_extract_mode, model, temperature,
                   nextId, last_call, parse_input, parse_result, cited_content,
                   cited_sources, citation_mapping, citation_op,
                   ollama, mcp, api>>

\* the LM answers the forced-summary request
SummaryReply(q, R) ==
    /\ local[q].pc = "summary"
    /\ R \in NextOutputs(local[q].lmOut)
    /\ Commit(q, OnSummaryResponse([local[q] EXCEPT !.lmOut = Append(@, R)], R))
    /\ UNCHANGED <<request_id, research_mode, fetch_extract_mode, model, temperature,
                   nextId, variety, last_call, parse_input, parse_result, cited_content,
                   cited_sources, citation_mapping, citation_op,
                   ollama, mcp, api>>

\* the forced-summary request fails: `except Exception` sets the diagnostic
SummaryFail(q, e) ==
    /\ local[q].pc = "summary"
    /\ Spend(1)
    /\ Commit(q, IF IsException(e)
                 THEN Finalize([local[q] EXCEPT !.final_response = DIAG_SUMMARY_FAILED])
                 ELSE Raise(local[q], e))
    /\ UNCHANGED <<request_id, research_mode, fetch_extract_mode, model, temperature,
                   nextId, last_call, parse_input, parse_result, cited_content,
                   cited_sources, citation_mapping, citation_op,
                   ollama, mcp, api>>

\* the LM answers the follow-up generator's request with `lines`
FollowupReply(q, lines) ==
    /\ local[q].pc = "followup"
    /\ Spend(IF lines = NominalFollowup THEN 0 ELSE 1)
    /\ Commit(q, Respond(local[q], generate_followup_questions(local[q].query, lines),
                         request_id))
    /\ UNCHANGED <<request_id, research_mode, fetch_extract_mode, model, temperature,
                   nextId, last_call, parse_input, parse_result, cited_content,
                   cited_sources, citation_mapping, citation_op,
                   ollama, mcp, api>>

\* the follow-up generator's request fails: `except Exception` falls back
FollowupFail(q, e) ==
    /\ local[q].pc = "followup"
    /\ Spend(1)
    /\ Commit(q, IF IsException(e)
                 THEN Respond(local[q], fallback_followup_questions(local[q].query),
                              request_id)
                 ELSE Raise(local[q], e))
    /\ UNCHANGED <<request_id, research_mode, fetch_extract_mode, model, temperature,
                   nextId, last_call, parse_input, parse_result, cited_content,
                   cited_sources, citation_mapping, citation_op,
                   ollama, mcp, api>>

\* the caller has the response or the exception; the coroutine is gone
Return(q) ==
    /\ local[q].pc \in {"done", "raised"}
    /\ local' = [local EXCEPT ![q] = IdleLocal]
    /\ UNCHANGED <<conversation_history, request_id, research_mode, fetch_extract_mode,
                   model, temperature, nextId, variety, last_call, parse_input,
                   parse_result, cited_content, cited_sources, citation_mapping,
                   citation_op,
                   ollama, mcp, api>>

\* Orchestrator.__init__ with its default arguments
\* settings.ollama_default_model and settings.ollama_temperature (0.4), in tenths
DEFAULT_MODEL == "ministral-3:8b"
DEFAULT_TEMPERATURE == 4

\* ------------------------------------------------------------ HTTP clients
\* the most httpx.AsyncClient objects one instance creates
MaxClients == 3

\* of an OllamaClient or MCPClient: client is self._client (0 is None, n the
\* n-th AsyncClient the instance created), open the AsyncClients created and
\* not yet closed, created their number

\* __aenter__: self._client = httpx.AsyncClient(...)
aenter(c) ==
    [c EXCEPT !.client = c.created + 1, !.open = @ \cup {c.created + 1},
              !.created = @ + 1]

\* __aexit__: if self._client: await self._client.aclose(); self._client = None
aexit(c) ==
    IF c.client # 0 THEN [c EXCEPT !.open = @ \ {c.client}, !.client = 0] ELSE c

\* _get_client: a new AsyncClient if self._client is None
get_client(c) ==
    IF c.client = 0
    THEN [c EXCEPT !.client = c.created + 1, !.open = @ \cup {c.created + 1},
                   !.created = @ + 1]
    ELSE c

\* close(): as __aexit__
close(c) ==
    IF c.client # 0 THEN [c EXCEPT !.open = @ \ {c.client}, !.client = 0] ELSE c

\* ------------------------------------------------------------ OllamaClient
\* settings.ollama_max_retries
OLLAMA_MAX_RETRIES == 3

\* what one POST /api/chat comes to: an HTTP status or an httpx exception
PostOutcomes == {"200", "404", "500", "ConnectError", "TimeoutException", "ReadError"}

\* OllamaClient(max_retries=...): self.max_retries = max_retries or settings...
OllamaClient(max_retries_arg) ==
    [client |-> 0, open |-> {}, created |-> 0,
     max_retries |-> IF max_retries_arg # None /\ max_retries_arg[1] # 0
                     THEN max_retries_arg[1] ELSE OLLAMA_MAX_RETRIES,
     pc |-> "idle", attempt |-> 0, posts |-> <<>>, exc |-> "", code |-> ""]

\* chat() up to its first POST: client = self._get_client(), attempt 0
chat(o) ==
    [get_client(o) EXCEPT !.pc = "post", !.attempt = 0, !.posts = <<>>,
                          !.exc = "", !.code = ""]

OllamaError(o, code) == [o EXCEPT !.pc = "raised", !.exc = "OllamaError", !.code = code]

\* the reaction to a POST that reports every last failure as ollama_unavailable
on_post_OneCode(o, outcome) ==
    LET p == [o EXCEPT !.posts = Append(@, outcome)]
    IN CASE outcome = "200" -> [p EXCEPT !.pc = "returned"]
         [] outcome = "404" -> OllamaError(p, "ollama_model_not_found")
         [] outcome \in {"ConnectError", "TimeoutException"} ->
                IF o.attempt = o.max_retries - 1
                THEN OllamaError(p, "ollama_unavailable")
                ELSE [p EXCEPT !.pc = "sleep"]
         [] outcome = "ReadError" -> [p EXCEPT !.pc = "raised", !.exc = outcome]
         [] OTHER -> OllamaError(p, "ollama_unavailable")

\* the body of chat()'s retry loop on the outcome of client.post
on_post(o, outcome) ==
    LET p == [o EXCEPT !.posts = Append(@, outcome)]
    IN CASE outcome = "200" -> [p EXCEPT !.pc = "returned"]
         [] outcome = "404" -> OllamaError(p, "ollama_model_not_found")
         [] outcome = "ConnectError" ->
                IF o.attempt = o.max_retries - 1
                THEN OllamaError(p, "ollama_unavailable")
                ELSE [p EXCEPT !.pc = "sleep"]
         [] outcome = "TimeoutException" ->
                IF o.attempt = o.max_retries - 1
                THEN OllamaError(p, "ollama_timeout")
                ELSE [p EXCEPT !.pc = "sleep"]
         [] outcome = "ReadError" -> [p EXCEPT !.pc = "raised", !.exc = outcome]
         [] OTHER -> OllamaError(p, "ollama_unavailable")

\* after asyncio.sleep(1): the next attempt of the loop, or, the range
\* exhausted, the raise after the loop
after_sleep(o) ==
    IF o.attempt + 1 < o.max_retries
    THEN [o EXCEPT !.pc = "post", !.attempt = @ + 1]
    ELSE OllamaError(o, "ollama_unavailable")

\* ---------------------------------------------------------------- MCPClient
\* MCPClient()
MCPClient == [client |-> 0, open |-> {}, created |-> 0,
              pc |-> "idle", tool_name |-> "", request_id |-> 0, request |-> None,
              result |-> None]

\* ---------------------------------------------------------------- ResearchAPI
\* class ErrorCodes: its attributes and their values
ErrorCodes ==
    [INVALID_REQUEST |-> "invalid_request", MISSING_PARAMETER |-> "missing_parameter",
     INVALID_URL |-> "invalid_url", SEARCH_FAILED |-> "search_failed",
     SEARCH_TIMEOUT |-> "search_timeout", SEARCH_NO_RESULTS |-> "search_no_results",
     SEARCH_RATE_LIMITED |-> "search_rate_limited", FETCH_FAILED |-> "fetch_failed",
     FETCH_TIMEOUT |-> "fetch_timeout", FETCH_BLOCKED |-> "fetch_blocked",
     FETCH_INVALID_URL |-> "fetch_invalid_url", FETCH_CONTENT_TYPE |-> "fetch_content_type",
     NOTE_NOT_FOUND |-> "note_not_found", NOTE_SAVE_FAILED |-> "note_save_failed",
     NOTE_TITLE_REQUIRED |-> "note_title_required",
     NOTE_CONTENT_REQUIRED |-> "note_content_required",
     NOTE_TITLE_TOO_LONG |-> "note_title_too_long",
     NOTE_TOO_MANY_TAGS |-> "note_too_many_tags",
     NOTES_DB_UNAVAILABLE |-> "notes_db_unavailable",
     NOTES_QUERY_FAILED |-> "notes_query_failed",
     OLLAMA_UNAVAILABLE |-> "ollama_unavailable",
     OLLAMA_MODEL_NOT_FOUND |-> "ollama_model_not_found",
     OLLAMA_TIMEOUT |-> "ollama_timeout",
     MCP_SERVER_UNAVAILABLE |-> "mcp_server_unavailable",
     MCP_TOOL_FAILED |-> "mcp_tool_failed", INTERNAL_ERROR |-> "internal_error",
     ORCHESTRATION_FAILED |-> "orchestration_failed"]

\* a ResearchAPI.research() call: cause is the exception the orchestrator
\* raised ("" if none), exc the exception that leaves research() itself
NoApiCall == [pc |-> "idle", response |-> None, cause |-> "", exc |-> ""]

success_response(data) == [success |-> TRUE, data |-> Some(data), error |-> None]

error_response(code, message, error_type) ==
    [success |-> FALSE, data |-> None,
     error |-> Some([code |-> code, message |-> message, type |-> error_type])]

RECURSIVE TraceData(_)
\* the tool_trace list research() puts into data
TraceData(tool_trace) ==
    IF tool_trace = <<>> THEN <<>>
    ELSE <<[tool_name |-> Head(tool_trace).tool_name, success |-> Head(tool_trace).success,
            duration_ms |-> Head(tool_trace).duration_ms]>> \o TraceData(Tail(tool_trace))

\* research() after the orchestrator returned `response`
ApiSuccess(a, response) ==
    [a EXCEPT !.pc = "returned",
              !.response = Some(success_response(
                  [content |-> response.content,
                   sources |-> response.sources,
                   tool_trace |-> TraceData(response.tool_trace),
                   can_save |-> response.can_save_as_note,
                   suggested_title |-> response.suggested_title]))]

\* research() after the orchestrator raised e: `except Exception` evaluates
\* ErrorCodes.SERVICE_ERROR for the error response
ApiFailure(a, e) ==
    IF ~IsException(e) THEN [a EXCEPT !.pc = "raised", !.cause = e, !.exc = e]
    ELSE IF "SERVICE_ERROR" \in DOMAIN ErrorCodes
    THEN [a EXCEPT !.pc = "returned", !.cause = e,
                   !.response = Some(error_response(ErrorCodes["SERVICE_ERROR"], e,
                                                    "research_error"))]
    ELSE [a EXCEPT !.pc = "raised", !.cause = e, !.exc = "AttributeError"]

\* no client and no API object is in use
ClientsIdle ==
    /\ ollama = OllamaClient(None)
    /\ mcp = MCPClient
    /\ api = NoApiCall

\* no citation function has been called
CitationsIdle ==
    /\ cited_content = <<>>
    /\ cited_sources = <<>>
    /\ citation_mapping = EmptyDict
    /\ citation_op = ""

\* Orchestrator.__init__: the fields it sets from its arguments
Construct(model_arg, research_mode_arg, fetch_extract_mode_arg, temperature_arg) ==
    /\ model = IF model_arg # None /\ model_arg[1] # "" THEN model_arg[1] ELSE DEFAULT_MODEL
    /\ research_mode = IF research_mode_arg \in RESEARCH_MODES THEN research_mode_arg
                       ELSE "quick"
    /\ fetch_extract_mode = IF fetch_extract_mode_arg \in {"text", "markdown"}
                            THEN fetch_extract_mode_arg ELSE "text"
    /\ temperature = IF temperature_arg # None THEN temperature_arg[1]
                     ELSE DEFAULT_TEMPERATURE
    /\ conversation_history = <<>>
    /\ request_id = 0

\* Orchestrator() with the default arguments; nothing called, nothing parsed
Init ==
    /\ Construct(None, "quick", "text", None)
    /\ last_call = None
    /\ ClientsIdle
    /\ parse_input = <<>>
    /\ parse_result = None
    /\ CitationsIdle
    /\ local = [q \in Tasks |-> IdleLocal]
    /\ nextId = 0
    /\ variety = MaxVariety

Step(q) ==
    \/ \E query \in Queries, cb \in CallbackProfiles : StartResearch(q, query, cb)
    \/ \E R \in LMOutputs : ThinkReply(q, R)
    \/ \E e \in LMFailures : ThinkFail(q, e)
    \/ \E reply \in UNION {OffNominalReplies(t) \cup {NominalReply(t)} : t \in VALID_TOOLS}
                    \cup AbortingReplies : ToolReply(q, reply)
    \/ \E R \in LMOutputs : SummaryReply(q, R)
    \/ \E e \in LMFailures : SummaryFail(q, e)
    \/ \E lines \in FollowupReplies : FollowupReply(q, lines)
    \/ \E e \in LMFailures : FollowupFail(q, e)
    \/ Return(q)

\* one research() call at a time, on task 1
Next == Step(1)

Spec == Init /\ [][Next]_vars

\* a coroutine waiting on the LM or on the tool client
Pending(q) == local[q].pc \in {"think", "exec", "summary", "followup"}

\* every LM request and every tool invocation is answered or fails: weak
\* fairness of the steps of a pending run, WF_vars(Pending(1) /\ Next), with
\* ENABLED written out as Pending(1) (a pending run always has a step)
FairSpec == Spec /\ ([]<>(~Pending(1)) \/ []<><<Next>>_vars)

\* -------------------------------------------------------- research_stream
\* A streamed text is a sequence of pieces; a chunk is a non-empty run of
\* pieces.  The tags travel as two pieces each, so that a chunk boundary may
\* fall inside a tag.
OPEN_HEAD == "<tool"
CLOSE_HEAD == "</tool"
TAG_TAIL == "_call>"

RECURSIVE Joined(_)
\* the string that `current_response += chunk` has built, as tokens
Joined(pieces) ==
    IF pieces = <<>> THEN <<>>
    ELSE IF Len(pieces) >= 2 /\ pieces[1] = OPEN_HEAD /\ pieces[2] = TAG_TAIL
    THEN <<OPEN>> \o Joined(SubSeq(pieces, 3, Len(pieces)))
    ELSE IF Len(pieces) >= 2 /\ pieces[1] = CLOSE_HEAD /\ pieces[2] = TAG_TAIL
    THEN <<CLOSE>> \o Joined(SubSeq(pieces, 3, Len(pieces)))
    ELSE <<Head(pieces)>> \o Joined(Tail(pieces))

\* research_stream() from its first line to the first chat_stream request;
\* the system prompt is built without the research mode
BeginStream(query, cb, history, rid) ==
    RequestLLM(
        [IdleLocal EXCEPT
           !.query = query, !.cb = cb, !.hist0 = history, !.rid0 = rid,
           !.messages = InsertHistory(<<Msg("system", build_system_prompt("quick")),
                                        Msg("user", query)>>, history),
           !.iterations = 1],
        "s_stream")

\* research_stream(): the loop is left; accumulated_response goes to the
\* history (in StreamCommit) and the generator finishes
StreamFinish(loc, accumulated_response) ==
    [loc EXCEPT !.final_response = accumulated_response, !.pc = "s_done"]

\* research_stream(): the end of a turn that dispatched tool calls
StreamEndTurn(loc) ==
    LET a == [loc EXCEPT
                !.messages = @ \o <<Msg("assistant", Joined(loc.current_response)),
                                    Msg("user", <<"Tool results:\n\n">>
                                                \o JoinResults(loc.tool_results))>>]
    IN IF a.iterations < MAX_TOOL_ITERATIONS
       THEN RequestLLM([a EXCEPT !.iterations = @ + 1, !.current_response = <<>>],
                       "s_stream")
       ELSE StreamFinish(a, <<>>)

RECURSIVE StreamRunCalls(_, _, _)
\* research_stream(): `for tool_call in parse_result.tool_calls`, from call k
\* to the next await; on_tool_start is called here and again in _execute_tool
StreamRunCalls(loc, rid, fem) ==
    IF loc.pc = "raised" THEN loc
    ELSE IF loc.k > Len(loc.calls) THEN StreamEndTurn(loc)
    ELSE LET a == Fire(loc, "on_tool_start", StartEvent(loc.calls[loc.k]))
         IN IF a.pc = "raised" THEN a
            ELSE IF a.calls[a.k].name \notin VALID_TOOLS
            THEN StreamRunCalls(ExecuteUnknown(a, a.calls[a.k], rid), rid, fem)
            ELSE LET b == BeginInvoke(a, a.calls[a.k], rid, fem)
                 IN IF b.pc = "raised" THEN b ELSE [b EXCEPT !.pc = "s_exec"]

\* research_stream(): after the `async for`: parse, finish or dispatch
OnStreamEnd(loc0, rid, fem) ==
    LET text == Joined(loc0.current_response)
        loc == [loc0 EXCEPT !.lmOut = Append(@, loc0.current_response)]
        calls == parse_tool_calls(text)
    IN IF calls = <<>> THEN StreamFinish(loc, text)
       ELSE StreamRunCalls([loc EXCEPT !.llm_response = text, !.calls = calls, !.k = 1,
                                       !.tool_results = <<>>],
                           rid, fem)

\* research_stream(): the body of the `async for` for one chunk
OnStreamChunk(loc0, chunk, rid, fem) ==
    LET loc == [loc0 EXCEPT !.current_response = @ \o chunk]
        text == Joined(loc.current_response)
    IN IF Contains(text, OPEN)
       THEN IF Contains(text, CLOSE) THEN OnStreamEnd(loc, rid, fem) ELSE loc
       ELSE [loc EXCEPT !.yielded = Append(@, chunk), !.pc = "s_yield"]

\* what the LM may stream in the successive turns of one research_stream()
SAnswer == <<"Hi", WS, "there.">>
SCall == <<"x", OPEN_HEAD, TAG_TAIL, "{web_search}", CLOSE_HEAD, TAG_TAIL, "tail">>
SPlainCall == <<OPEN, "{get_note}", CLOSE>>
SUpperCall == <<OPEN_UC, "{fetch_page}", CLOSE_HEAD, TAG_TAIL>>
SUnknownCall == <<OPEN_HEAD, TAG_TAIL, "{summarize}", CLOSE_HEAD, TAG_TAIL>>
StreamScripts ==
    {<<SAnswer>>,
     <<SCall, SAnswer>>,
     <<SUpperCall, SAnswer>>,
     <<SUnknownCall, SAnswer>>,
     <<SPlainCall, SPlainCall, SPlainCall, SPlainCall, SPlainCall>>}

IsPrefix(a, b) == Len(a) <= Len(b) /\ SubSeq(b, 1, Len(a)) = a

\* the streams the LM may be sending after the turns `outs`
NextStreams(outs) ==
    {s[Len(outs) + 1] : s \in {t \in StreamScripts :
                                 /\ Len(t) > Len(outs)
                                 /\ \A i \in 1..Len(outs) : IsPrefix(outs[i], t[i])}}

\* every chunk there can be: every non-empty run of pieces of a stream
StreamChunks ==
    LET Streams == UNION {{s[t] : t \in DOMAIN s} : s \in StreamScripts}
    IN UNION {{SubSeq(R, i, j) : i \in 1..Len(R), j \in 1..Len(R)} : R \in Streams}
       \ {<<>>}

StreamCallbacks ==
    {Callbacks("ok", "ok", "none"), NoCallbacks, Callbacks("raises", "ok", "none"),
     Callbacks("ok", "raises", "none")}

\* the step of generator q to its next suspension; research_stream() appends
\* to conversation_history right after its loop, before it finishes
StreamCommit(q, n) ==
    /\ local' = [local EXCEPT ![q] = n]
    /\ conversation_history' =
           IF n.pc = "s_done"
           THEN conversation_history
                \o <<Msg("user", n.query), Msg("assistant", n.final_response)>>
           ELSE conversation_history

\* research_stream(query, on_tool_start, on_tool_complete) is iterated
StartStream(q, query, cb) ==
    /\ local[q].pc = "idle"
    /\ Spend((IF nextId > 0 THEN 1 ELSE 0) + (IF query # NominalQuery THEN 1 ELSE 0)
             + (IF cb # Callbacks("ok", "ok", "none") THEN 1 ELSE 0))
    /\ nextId' = nextId + 1
    /\ request_id' = nextId + 1
    /\ StreamCommit(q, BeginStream(query, cb, conversation_history, nextId + 1))
    /\ UNCHANGED <<research_mode, fetch_extract_mode, model, temperature, last_call,
                   parse_input, parse_result, cited_content, cited_sources,
                   citation_mapping, citation_op,
                   ollama, mcp, api>>

\* the LM's stream delivers its next chunk
StreamChunk(q, chunk) ==
    /\ local[q].pc = "s_stream"
    /\ \E R \in NextStreams(local[q].lmOut) :
           IsPrefix(local[q].current_response \o chunk, R)
    /\ StreamCommit(q, OnStreamChunk(local[q], chunk, request_id, fetch_extract_mode))
    /\ UNCHANGED <<request_id, research_mode, fetch_extract_mode, model, temperature,
                   nextId, variety, last_call, parse_input, parse_result, cited_content,
                   cited_sources, citation_mapping, citation_op,
                   ollama, mcp, api>>

\* the LM's stream ends
StreamEnd(q) ==
    /\ local[q].pc = "s_stream"
    /\ local[q].current_response \in NextStreams(local[q].lmOut)
    /\ StreamCommit(q, OnStreamEnd(local[q], request_id, fetch_extract_mode))
    /\ UNCHANGED <<request_id, research_mode, fetch_extract_mode, model, temperature,
                   nextId, variety, last_call, parse_input, parse_result, cited_content,
                   cited_sources, citation_mapping, citation_op,
                   ollama, mcp, api>>

\* the LM's stream fails: nothing in research_stream() catches it
StreamFail(q, e) ==
    /\ local[q].pc = "s_stream"
    /\ Spend(1)
    /\ StreamCommit(q, Raise(local[q], e))
    /\ UNCHANGED <<request_id, research_mode, fetch_extract_mode, model, temperature,
                   nextId, last_call, parse_input, parse_result, cited_content,
                   cited_sources, citation_mapping, citation_op,
                   ollama, mcp, api>>

\* the consumer asks for the next chunk
StreamResume(q) ==
    /\ local[q].pc = "s_yield"
    /\ StreamCommit(q, [local[q] EXCEPT !.pc = "s_stream"])
    /\ UNCHANGED <<request_id, research_mode, fetch_extract_mode, model, temperature,
                   nextId, variety, last_call, parse_input, parse_result, cited_content,
                   cited_sources, citation_mapping, citation_op,
                   ollama, mcp, api>>

\* the consumer closes the generator at a yield
StreamClose(q) ==
    /\ local[q].pc = "s_yield"
    /\ Spend(1)
    /\ StreamCommit(q, Raise(local[q], "GeneratorExit"))
    /\ UNCHANGED <<request_id, research_mode, fetch_extract_mode, model, temperature,
                   nextId, last_call, parse_input, parse_result, cited_content,
                   cited_sources, citation_mapping, citation_op,
                   ollama, mcp, api>>

\* the tool server answers (or the call fails) for the call being awaited
StreamToolReply(q, reply) ==
    /\ local[q].pc = "s_exec"
    /\ reply \in {NominalReply(local[q].calls[local[q].k].name)}
                 \cup OffNominalReplies(local[q].calls[local[q].k].name)
                 \cup AbortingReplies
    /\ Spend(IF reply = NominalReply(local[q].calls[local[q].k].name) THEN 0 ELSE 1)
    /\ StreamCommit(q, StreamRunCalls(FinishInvoke(local[q], reply, request_id),
                                      request_id, fetch_extract_mode))
    /\ UNCHANGED <<request_id, research_mode, fetch_extract_mode, model, temperature,
                   nextId, last_call, parse_input, parse_result, cited_content,
                   cited_sources, citation_mapping, citation_op,
                   ollama, mcp, api>>

\* the consumer has seen the generator finish or raise
StreamReturn(q) ==
    /\ local[q].pc \in {"s_done", "raised"}
    /\ local' = [local EXCEPT ![q] = IdleLocal]
    /\ UNCHANGED <<conversation_history, request_id, research_mode, fetch_extract_mode,
                   model, temperature, nextId, variety, last_call, parse_input,
                   parse_result, cited_content, cited_sources, citation_mapping,
                   citation_op,
                   ollama, mcp, api>>

StreamStep(q) ==
    \/ \E query \in Queries, cb \in StreamCallbacks : StartStream(q, query, cb)
    \/ \E chunk \in StreamChunks : StreamChunk(q, chunk)
    \/ StreamEnd(q)
    \/ \E e \in LMFailures : StreamFail(q, e)
    \/ StreamResume(q)
    \/ StreamClose(q)
    \/ \E reply \in UNION {OffNominalReplies(t) \cup {NominalReply(t)} : t \in VALID_TOOLS}
                    \cup AbortingReplies : StreamToolReply(q, reply)
    \/ StreamReturn(q)

\* one research_stream() call at a time, on task 1
StreamNext == StreamStep(1)

StreamSpec == Init /\ [][StreamNext]_vars

\* ------------------------------------------------- constructor and setters
\* set_temperature without its range test
NewTemperature_Unchecked(old, arg) == arg

\* set_research_mode(mode): the value research_mode has afterwards
NewResearchMode(old, mode) == IF mode \in RESEARCH_MODES THEN mode ELSE old

\* set_fetch_extract_mode(mode): the value fetch_extract_mode has afterwards
NewFetchExtractMode(old, mode) == IF mode \in {"text", "markdown"} THEN mode ELSE old

\* set_model(model): `if model:` is false for the empty name
NewModel(old, name) == IF name # "" THEN name ELSE old

\* set_temperature(temperature): `if 0.0 <= temperature <= 1.0`, in tenths
NewTemperature(old, arg) == IF 0 <= arg /\ arg <= 10 THEN arg ELSE old

\* the arguments the constructor and the setters are given
ModeArgs == {"quick", "deep", "fast", ""}
ExtractArgs == {"text", "markdown", "html"}
ModelArgs == {"llama3", ""}
TemperatureArgs == {-1, 0, 7, 10, 11}

\* a setter call: its name, and its argument as a name or as a number of tenths
Called(op, name, tenths) == Some([op |-> op, name |-> name, tenths |-> tenths])

set_research_mode(mode) ==
    /\ research_mode' = NewResearchMode(research_mode, mode)
    /\ last_call' = Called("set_research_mode", mode, 0)
    /\ UNCHANGED <<conversation_history, request_id, fetch_extract_mode, model,
                   temperature, parse_input, parse_result, local, nextId, variety,
                   cited_content, cited_sources, citation_mapping, citation_op,
                   ollama, mcp, api>>

set_fetch_extract_mode(mode) ==
    /\ fetch_extract_mode' = NewFetchExtractMode(fetch_extract_mode, mode)
    /\ last_call' = Called("set_fetch_extract_mode", mode, 0)
    /\ UNCHANGED <<conversation_history, request_id, research_mode, model, temperature,
                   parse_input, parse_result, local, nextId, variety, cited_content,
                   cited_sources, citation_mapping, citation_op,
                   ollama, mcp, api>>

set_model(name) ==
    /\ model' = NewModel(model, name)
    /\ last_call' = Called("set_model", name, 0)
    /\ UNCHANGED <<conversation_history, request_id, research_mode, fetch_extract_mode,
                   temperature, parse_input, parse_result, local, nextId, variety,
                   cited_content, cited_sources, citation_mapping, citation_op,
                   ollama, mcp, api>>

set_temperature(arg) ==
    /\ temperature' = NewTemperature(temperature, arg)
    /\ last_call' = Called("set_temperature", "", arg)
    /\ UNCHANGED <<conversation_history, request_id, research_mode, fetch_extract_mode,
                   model, parse_input, parse_result, local, nextId, variety, cited_content,
                   cited_sources, citation_mapping, citation_op,
                   ollama, mcp, api>>

\* Orchestrator(...) with any arguments; one nominal query may then run
ConfigInit ==
    /\ \E model_arg \in {None} \cup {Some(m) : m \in ModelArgs},
          research_mode_arg \in ModeArgs,
          fetch_extract_mode_arg \in ExtractArgs,
          temperature_arg \in {None} \cup {Some(t) : t \in TemperatureArgs} :
           Construct(model_arg, research_mode_arg, fetch_extract_mode_arg, temperature_arg)
    /\ last_call = None
    /\ ClientsIdle
    /\ parse_input = <<>>
    /\ parse_result = None
    /\ CitationsIdle
    /\ local = [q \in Tasks |-> IdleLocal]
    /\ nextId = 0
    /\ variety = 0

\* setters called at any moment, also between the steps of a running query
ConfigNext ==
    \/ \E mode \in ModeArgs : set_research_mode(mode)
    \/ \E mode \in ExtractArgs : set_fetch_extract_mode(mode)
    \/ \E name \in ModelArgs : set_model(name)
    \/ \E arg \in TemperatureArgs : set_temperature(arg)
    \/ StartResearch(1, NominalQuery, NominalCallbacks)
    \/ \E R \in LMOutputs : ThinkReply(1, R)
    \/ \E reply \in UNION {{NominalReply(t)} : t \in VALID_TOOLS} : ToolReply(1, reply)
    \/ \E lines \in FollowupReplies : FollowupReply(1, lines)
    \/ Return(1)

ConfigSpec == ConfigInit /\ [][ConfigNext]_vars

\* ------------------------------------------------- the parser on its own
\* the texts parse_tool_calls is tried on: every sequence of at most
\* MaxTextLen of these tokens
MaxTextLen == 5
TextTokens == {OPEN, OPEN_UC, CLOSE, WS, "x", "{get_note}"}
Texts == UNION {[1..n -> TextTokens] : n \in 0..MaxTextLen}

ParserInit ==
    /\ parse_input \in Texts
    /\ parse_result = None
    /\ CitationsIdle
    /\ Construct(None, "quick", "text", None)
    /\ last_call = None
    /\ ClientsIdle
    /\ local = [q \in Tasks |-> IdleLocal]
    /\ nextId = 0
    /\ variety = 0

\* parse_tool_calls(parse_input) is called
Parse ==
    /\ parse_result = None
    /\ parse_result' = Some(ParseResult(parse_input))
    /\ UNCHANGED <<conversation_history, request_id, research_mode, fetch_extract_mode,
                   model, temperature, last_call, parse_input, local, nextId, variety,
                   cited_content, cited_sources, citation_mapping, citation_op,
                   ollama, mcp, api>>

ParserNext == Parse

ParserSpec == ParserInit /\ [][ParserNext]_vars

\* ------------------------------------------- both entry points, any mode
\* Orchestrator(research_mode=...) with any mode argument
ModeInit ==
    /\ \E research_mode_arg \in ModeArgs : Construct(None, research_mode_arg, "text", None)
    /\ last_call = None
    /\ ClientsIdle
    /\ parse_input = <<>>
    /\ parse_result = None
    /\ CitationsIdle
    /\ local = [q \in Tasks |-> IdleLocal]
    /\ nextId = 0
    /\ variety = MaxVariety - 1

\* research() and research_stream() calls, one at a time, on task 1
ModeNext == Step(1) \/ StreamStep(1)

ModeSpec == ModeInit /\ [][ModeNext]_vars

\* -------------------------------------------------------------- citations
\* CITATION_PATTERN `\[(\d+)\]` and int(): the number a marker token stands
\* for; "[07]" and "[7]" are two markers for the same number
CitationNumbers ==
    [tok \in {"[0]", "[1]", "[2]", "[3]", "[4]", "[5]", "[6]", "[7]", "[07]"} |->
        CASE tok = "[0]" -> 0 [] tok = "[1]" -> 1 [] tok = "[2]" -> 2 [] tok = "[3]" -> 3
          [] tok = "[4]" -> 4 [] tok = "[5]" -> 5 [] tok = "[6]" -> 6 [] tok = "[7]" -> 7
          [] tok = "[07]" -> 7]

IsCitation(tok) == tok \in DOMAIN CitationNumbers

\* f"[{n}]"
FormatCitation(n) ==
    CHOOSE tok \in DOMAIN CitationNumbers \ {"[07]"} : CitationNumbers[tok] = n

\* SOURCE_BLOCK_PATTERN, case-insensitive, plural and colon optional
SourceHeaders == {"**Sources:**", "**source**"}
HasSourceBlock(text) == \E i \in DOMAIN text : text[i] \in SourceHeaders

NL == "\n"

RECURSIVE RStrip(_)
\* str.rstrip()
RStrip(text) ==
    IF text # <<>> /\ text[Len(text)] \in {WS, NL}
    THEN RStrip(SubSeq(text, 1, Len(text) - 1))
    ELSE text

\* a renumbering that counts the markers in order of appearance
renumber_citations_ByAppearance(text) ==
    LET markers == SelectSeq(text, IsCitation)
        FirstAt(n) == CHOOSE i \in DOMAIN markers :
                          /\ CitationNumbers[markers[i]] = n
                          /\ \A j \in 1..(i - 1) : CitationNumbers[markers[j]] # n
        numbers == {CitationNumbers[markers[i]] : i \in DOMAIN markers}
        mapping == [old \in numbers |->
                       Cardinality({n \in numbers : FirstAt(n) <= FirstAt(old)})]
    IN [content |-> [i \in DOMAIN text |->
                        IF IsCitation(text[i])
                        THEN FormatCitation(mapping[CitationNumbers[text[i]]])
                        ELSE text[i]],
        mapping |-> mapping]

\* renumber_citations(content): the renumbered content and the mapping
renumber_citations(text) ==
    LET numbers == {CitationNumbers[text[i]] : i \in {j \in DOMAIN text : IsCitation(text[j])}}
        mapping == [old \in numbers |-> Cardinality({n \in numbers : n <= old})]
    IN [content |-> [i \in DOMAIN text |->
                        IF IsCitation(text[i])
                        THEN FormatCitation(mapping[CitationNumbers[text[i]]])
                        ELSE text[i]],
        mapping |-> mapping]

RECURSIVE CitationLines(_, _)
\* format_citations_markdown: the lines after the header, for the citations
\* add_citations_to_content numbers from i on
CitationLines(sources, i) ==
    IF sources = <<>> THEN <<>>
    ELSE LET source == Head(sources)
             url == Get(source, "url", "")
             title == Get(source, "title", Get(source, "url", "Unknown"))
         IN <<NL, FormatCitation(i), WS>>
            \o (IF url # "" THEN <<"[", title, "](", url, ")">> ELSE <<title>>)
            \o CitationLines(Tail(sources), i + 1)

\* format_citations_markdown(citations)
format_citations_markdown(sources) ==
    IF sources = <<>> THEN <<>>
    ELSE <<NL, "**Sources:**">> \o CitationLines(sources, 1)

\* add_citations_to_content that does not look for an existing block
add_citations_to_content_Always(text, sources) ==
    IF format_citations_markdown(sources) # <<>>
    THEN RStrip(text) \o <<NL>> \o format_citations_markdown(sources)
    ELSE text

\* add_citations_to_content(content, sources)
add_citations_to_content(text, sources) ==
    IF HasSourceBlock(text) THEN text
    ELSE IF format_citations_markdown(sources) # <<>>
    THEN RStrip(text) \o <<NL>> \o format_citations_markdown(sources)
    ELSE text

\* the contents and source lists the functions are tried on
MaxContentLen == 3
ContentTokens == {"x", NL, "[1]", "[3]", "[7]", "[07]", "**Sources:**", "**source**"}
Contents == UNION {[1..n -> ContentTokens] : n \in 0..MaxContentLen}
SourceLists ==
    {<<>>,
     <<[url |-> "u1", title |-> "T1"]>>,
     <<[url |-> "u1", title |-> "T1"], [url |-> "u2"], [title |-> "T3"]>>}

CitationInit ==
    /\ cited_content \in Contents
    /\ cited_sources \in SourceLists
    /\ citation_mapping = EmptyDict
    /\ citation_op = ""
    /\ Construct(None, "quick", "text", None)
    /\ last_call = None
    /\ ClientsIdle
    /\ parse_input = <<>>
    /\ parse_result = None
    /\ local = [q \in Tasks |-> IdleLocal]
    /\ nextId = 0
    /\ variety = 0

\* content, mapping = renumber_citations(content)
Renumber ==
    /\ cited_content' = renumber_citations(cited_content).content
    /\ citation_mapping' = renumber_citations(cited_content).mapping
    /\ citation_op' = "renumber_citations"
    /\ UNCHANGED <<conversation_history, request_id, research_mode, fetch_extract_mode,
                   model, temperature, last_call, parse_input, parse_result, cited_sources,
                   local, nextId, variety,
                   ollama, mcp, api>>

\* content = add_citations_to_content(content, sources)
AddCitations ==
    /\ cited_content' = add_citations_to_content(cited_content, cited_sources)
    /\ citation_op' = "add_citations_to_content"
    /\ UNCHANGED <<conversation_history, request_id, research_mode, fetch_extract_mode,
                   model, temperature, last_call, parse_input, parse_result, cited_sources,
                   citation_mapping, local, nextId, variety,
                   ollama, mcp, api>>

CitationNext == Renumber \/ AddCitations

CitationSpec == CitationInit /\ [][CitationNext]_vars

\* ------------------------------------------------- the clients on their own
\* the orchestrator, the parser and the citation functions left alone
OrchestratorVars == <<conversation_history, request_id, research_mode, fetch_extract_mode,
                      model, temperature, last_call, parse_input, parse_result,
                      cited_content, cited_sources, citation_mapping, citation_op,
                      local, nextId, variety>>

OrchestratorIdle ==
    /\ Construct(None, "quick", "text", None)
    /\ last_call = None
    /\ parse_input = <<>>
    /\ parse_result = None
    /\ CitationsIdle
    /\ local = [q \in Tasks |-> IdleLocal]
    /\ nextId = 0
    /\ variety = 0

\* the max_retries arguments tried: absent, 0 and the counts up to the default
RetryArgs == {None} \cup {Some(n) : n \in 0..OLLAMA_MAX_RETRIES}

\* an OllamaClient constructed with any of them
OllamaInit ==
    /\ OrchestratorIdle
    /\ \E max_retries_arg \in RetryArgs : ollama = OllamaClient(max_retries_arg)
    /\ mcp = MCPClient
    /\ api = NoApiCall

\* async with client: entered
OllamaEnter ==
    /\ ollama.pc = "idle"
    /\ ollama.created < MaxClients
    /\ ollama' = aenter(ollama)
    /\ UNCHANGED <<OrchestratorVars, mcp, api>>

\* the async with block left
OllamaExit ==
    /\ ollama.pc = "idle"
    /\ ollama' = aexit(ollama)
    /\ UNCHANGED <<OrchestratorVars, mcp, api>>

\* await client.close()
OllamaClose ==
    /\ ollama.pc = "idle"
    /\ ollama' = close(ollama)
    /\ UNCHANGED <<OrchestratorVars, mcp, api>>

\* await client.chat(messages) begins
ChatStart ==
    /\ ollama.pc = "idle"
    /\ ollama.client # 0 \/ ollama.created < MaxClients
    /\ ollama' = chat(ollama)
    /\ UNCHANGED <<OrchestratorVars, mcp, api>>

\* client.post comes back with a status or fails
ChatPost(outcome) ==
    /\ ollama.pc = "post"
    /\ ollama' = on_post(ollama, outcome)
    /\ UNCHANGED <<OrchestratorVars, mcp, api>>

\* asyncio.sleep(1) is over
ChatWake ==
    /\ ollama.pc = "sleep"
    /\ ollama' = after_sleep(ollama)
    /\ UNCHANGED <<OrchestratorVars, mcp, api>>

\* the caller has the ChatResponse or the exception
ChatEnd ==
    /\ ollama.pc \in {"returned", "raised"}
    /\ ollama' = [ollama EXCEPT !.pc = "idle", !.attempt = 0, !.posts = <<>>,
                                !.exc = "", !.code = ""]
    /\ UNCHANGED <<OrchestratorVars, mcp, api>>

OllamaNext ==
    \/ OllamaEnter
    \/ OllamaExit
    \/ OllamaClose
    \/ ChatStart
    \/ \E outcome \in PostOutcomes : ChatPost(outcome)
    \/ ChatWake
    \/ ChatEnd

OllamaSpec == OllamaInit /\ [][OllamaNext]_vars

\* the request_id arguments tried: absent (0) and two ids of the caller
RequestIdArgs == {0, 1, 2}

\* an MCPClient as constructed
McpInit ==
    /\ OrchestratorIdle
    /\ ollama = OllamaClient(None)
    /\ mcp = MCPClient
    /\ api = NoApiCall

\* async with client: entered
McpEnter ==
    /\ mcp.pc = "idle"
    /\ mcp.created < MaxClients
    /\ mcp' = aenter(mcp)
    /\ UNCHANGED <<OrchestratorVars, ollama, api>>

\* the async with block left
McpExit ==
    /\ mcp.pc = "idle"
    /\ mcp' = aexit(mcp)
    /\ UNCHANGED <<OrchestratorVars, ollama, api>>

\* await client.close()
McpClose ==
    /\ mcp.pc = "idle"
    /\ mcp' = close(mcp)
    /\ UNCHANGED <<OrchestratorVars, ollama, api>>

\* await client.call_tool(tool_name, arguments, request_id) up to its POST
CallToolStart(tool_name, arguments, rid) ==
    /\ mcp.pc = "idle"
    /\ mcp.client # 0 \/ mcp.created < MaxClients
    /\ mcp' = [get_client(mcp) EXCEPT
                 !.pc = "post",
                 !.tool_name = tool_name,
                 !.request_id = rid,
                 !.request = Some(make_jsonrpc_request(
                                      "tools/call",
                                      [name |-> tool_name, arguments |-> arguments],
                                      rid)),
                 !.result = None]
    /\ UNCHANGED <<OrchestratorVars, ollama, api>>

\* client.post comes back or fails; call_tool returns or raises
CallToolReply(reply) ==
    /\ mcp.pc = "post"
    /\ mcp' = [mcp EXCEPT !.pc = "over",
                          !.result = Some([reply |-> reply,
                                           outcome |-> call_tool(mcp.tool_name, reply)])]
    /\ UNCHANGED <<OrchestratorVars, ollama, api>>

\* the caller has the ToolResult or the exception
CallToolEnd ==
    /\ mcp.pc = "over"
    /\ mcp' = [mcp EXCEPT !.pc = "idle", !.tool_name = "", !.request_id = 0,
                          !.request = None, !.result = None]
    /\ UNCHANGED <<OrchestratorVars, ollama, api>>

McpNext ==
    \/ McpEnter
    \/ McpExit
    \/ McpClose
    \/ \E tool_name \in VALID_TOOLS, arguments \in {EmptyDict, [url |-> "u1"]},
          rid \in RequestIdArgs : CallToolStart(tool_name, arguments, rid)
    \/ \E reply \in UNION {OffNominalReplies(t) \cup {NominalReply(t)} : t \in VALID_TOOLS}
                    \cup AbortingReplies : CallToolReply(reply)
    \/ CallToolEnd

McpSpec == McpInit /\ [][McpNext]_vars

\* ------------------------------------------------------------- ResearchAPI
\* a ResearchAPI over a fresh orchestrator
ApiInit ==
    /\ Construct(None, "quick", "text", None)
    /\ last_call = None
    /\ parse_input = <<>>
    /\ parse_result = None
    /\ CitationsIdle
    /\ ClientsIdle
    /\ local = [q \in Tasks |-> IdleLocal]
    /\ nextId = 0
    /\ variety = MaxVariety

\* research(request, on_progress) up to the first await inside the
\* orchestrator: set_research_mode(request.mode), then research(query,
\* on_tool_start=on_progress, on_tool_complete=on_progress)
ApiStart(request, on_progress) ==
    /\ api.pc = "idle"
    /\ local[1].pc = "idle"
    /\ Spend((IF nextId > 0 THEN 1 ELSE 0)
             + (IF request.query # NominalQuery THEN 1 ELSE 0)
             + (IF request.mode # "quick" THEN 1 ELSE 0)
             + (IF on_progress # "ok" THEN 1 ELSE 0))
    /\ research_mode' = NewResearchMode(research_mode, request.mode)
    /\ last_call' = Called("set_research_mode", request.mode, 0)
    /\ nextId' = nextId + 1
    /\ request_id' = nextId + 1
    /\ Commit(1, BeginResearch(request.query, Callbacks(on_progress, on_progress, "none"),
                               conversation_history,
                               NewResearchMode(research_mode, request.mode), nextId + 1))
    /\ api' = [NoApiCall EXCEPT !.pc = "running"]
    /\ UNCHANGED <<fetch_extract_mode, model, temperature, parse_input, parse_result,
                   cited_content, cited_sources, citation_mapping, citation_op,
                   ollama, mcp>>

\* the orchestrator's research() goes on to its next await
ApiStep ==
    /\ api.pc = "running"
    /\ Pending(1)
    /\ Step(1)

\* the orchestrator's research() is over: research() builds its ApiResponse
ApiFinish ==
    /\ api.pc = "running"
    /\ local[1].pc \in {"done", "raised"}
    /\ api' = IF local[1].pc = "done" THEN ApiSuccess(api, local[1].response[1])
              ELSE ApiFailure(api, local[1].exc)
    /\ UNCHANGED <<OrchestratorVars, ollama, mcp>>

\* the caller has the ApiResponse or the exception
ApiEnd ==
    /\ api.pc \in {"returned", "raised"}
    /\ api' = NoApiCall
    /\ local' = [local EXCEPT ![1] = IdleLocal]
    /\ UNCHANGED <<conversation_history, request_id, research_mode, fetch_extract_mode,
                   model, temperature, last_call, parse_input, parse_result,
                   cited_content, cited_sources, citation_mapping, citation_op,
                   nextId, variety, ollama, mcp>>

ApiNext ==
    \/ \E query \in Queries, mode \in ModeArgs, on_progress \in {"none", "ok", "raises"} :
           ApiStart([query |-> query, mode |-> mode], on_progress)
    \/ ApiStep
    \/ ApiFinish
    \/ ApiEnd

ApiSpec == ApiInit /\ [][ApiNext]_vars

\* ------------------------------------------------------------ clear_history
\* clear_history() keeping the oldest pair
clear_history_KeepFirst ==
    /\ \A q \in Tasks : local[q].pc = "idle"
    /\ conversation_history' = Take(conversation_history, 2)
    /\ last_call' = Called("clear_history", "", 0)
    /\ UNCHANGED <<request_id, research_mode, fetch_extract_mode, model, temperature,
                   parse_input, parse_result, local, nextId, variety, cited_content,
                   cited_sources, citation_mapping, citation_op, ollama, mcp, api>>

\* clear_history(), called between two queries
clear_history ==
    /\ \A q \in Tasks : local[q].pc = "idle"
    /\ conversation_history' = <<>>
    /\ last_call' = Called("clear_history", "", 0)
    /\ UNCHANGED <<request_id, research_mode, fetch_extract_mode, model, temperature,
                   parse_input, parse_result, local, nextId, variety, cited_content,
                   cited_sources, citation_mapping, citation_op, ollama, mcp, api>>

\* an orchestrator as constructed, used for one query after another
HistoryInit ==
    /\ Construct(None, "quick", "text", None)
    /\ last_call = None
    /\ parse_input = <<>>
    /\ parse_result = None
    /\ CitationsIdle
    /\ ClientsIdle
    /\ local = [q \in Tasks |-> IdleLocal]
    /\ nextId = 0
    /\ variety = MaxVariety - 1

\* research(), research_stream() and clear_history() calls, one at a time
HistoryNext == Step(1) \/ StreamStep(1) \/ clear_history

HistorySpec == HistoryInit /\ [][HistoryNext]_vars

\* --------------------------------------------------- overlapping research()
\* two coroutines call research() on the one orchestrator; the second call
\* is the one departure from the nominal run (or, with one call alone, any
\* one departure inside it)
ConcurrentInit ==
    /\ Construct(None, "quick", "text", None)
    /\ last_call = None
    /\ parse_input = <<>>
    /\ parse_result = None
    /\ CitationsIdle
    /\ ClientsIdle
    /\ local = [q \in Tasks |-> IdleLocal]
    /\ nextId = 0
    /\ variety = 1

\* either coroutine goes on to its next await
ConcurrentNext == \E q \in Tasks : Step(q)

ConcurrentSpec == ConcurrentInit /\ [][ConcurrentNext]_vars

\* ---------------------------------------------------------------- claims
\* vocabulary of the claims
Running(q) == local[q].pc # "idle"
Returned(q) == local[q].pc = "done"
Raised(q) == local[q].pc = "raised"
Resp(q) == local[q].response[1]

\* the messages research() starts from: system, history, query
PrefixLen(loc) == Len(loc.hist0) + 2

\* the turns of the loop that dispatched tool calls and appended their messages
TurnsDone(loc) ==
    Cardinality({i \in (PrefixLen(loc) + 1)..Len(loc.messages) :
                    loc.messages[i].role = "assistant"})

\* the tool-results message of turn t
ResultsMessage(loc, t) == loc.messages[PrefixLen(loc) + 2 * t]

\* the names of the well-formed call payloads of an LM output, as they stand
\* in the text from left to right
TextualNames(text) ==
    LET payloads ==
            SelectSeq(text, LAMBDA tok : tok \in DOMAIN JsonObjects
                                         /\ "name" \in DOMAIN JsonObjects[tok]
                                         /\ JsonObjects[tok].name # ""
                                         /\ "arguments_other" \notin DOMAIN JsonObjects[tok])
    IN [j \in 1..Len(payloads) |-> JsonObjects[payloads[j]].name]

RECURSIVE CallsBefore(_, _)
\* the number of well-formed call payloads in the LM outputs of the turns
\* before t
CallsBefore(loc, t) ==
    IF t <= 1 THEN 0
    ELSE CallsBefore(loc, t - 1) + Len(TextualNames(loc.lmOut[t - 1]))

IsSubSeq(sub, text) ==
    \E i \in 0..(Len(text) - Len(sub)) : SubSeq(text, i + 1, i + Len(sub)) = sub

\* C1: a research() call that returns leaves conversation_history equal to
\* the history it started from followed by (user, query) and (assistant,
\* response.content), in that order; a call that raises the LM client's
\* error from a THINK turn leaves it as it was
C1_HistoryGrowsByPair ==
    \A q \in Tasks :
        /\ Returned(q) =>
               conversation_history =
                   local[q].hist0 \o <<[role |-> "user", content |-> local[q].query],
                                       [role |-> "assistant", content |-> Resp(q).content]>>
        /\ (Raised(q) /\ local[q].exc = "OllamaError") =>
               conversation_history = local[q].hist0

\* C1 witness: a second query has returned after tool calls, on a history
\* that already held a pair
C1_Witness ==
    \E q \in Tasks :
        /\ Returned(q)
        /\ local[q].hist0 # <<>>
        /\ Resp(q).tool_trace # <<>>

\* C2 as claimed: the content of a returned response never contains the
\* opening tag
C2_NoToolCallTagInContent ==
    \A q \in Tasks : Returned(q) => ~Contains(Resp(q).content, OPEN)

\* every one of the MAX_TOOL_ITERATIONS turns yielded at least one tool call
EveryTurnCalled(loc) ==
    /\ Len(loc.lmOut) >= MAX_TOOL_ITERATIONS
    /\ \A t \in 1..MAX_TOOL_ITERATIONS : TextualNames(loc.lmOut[t]) # <<>>

\* C3 as amended: when every turn yields a tool call the loop makes exactly
\* MAX_TOOL_ITERATIONS requests and then one forced-summary request, six
\* requests of the conversation; the follow-up generator's request is a
\* seventh LM request of the query
C3_SixConversationRequests ==
    \A q \in Tasks :
        (EveryTurnCalled(local[q]) /\ local[q].pc \in {"followup", "done"}) =>
            /\ TurnsDone(local[q]) = MAX_TOOL_ITERATIONS
            /\ local[q].lmLog =
                   <<"think", "think", "think", "think", "think", "summary", "followup">>

\* C3 witness: such a query has returned
C3_Witness ==
    \E q \in Tasks : Returned(q) /\ EveryTurnCalled(local[q])

\* C3 as claimed: six LM calls in total for the query
C3_SixCallsInTotal ==
    \A q \in Tasks :
        (EveryTurnCalled(local[q]) /\ Returned(q)) => Len(local[q].lmLog) = 6

\* C4: a call whose name is outside the whitelist gets a ToolExecution with
\* success false, an error text and zero duration; the tool client is never
\* invoked for it; and no call of a turn is dropped because of it: when the
\* query is at its next LM request every parsed call has its execution, and
\* while a tool is awaited every earlier call of the turn has
C4_UnknownToolRejected ==
    \A q \in Tasks :
        /\ \A i \in DOMAIN local[q].tool_trace :
               LET e == local[q].tool_trace[i]
               IN e.tool_name \notin VALID_TOOLS =>
                      /\ e.success = FALSE
                      /\ e.result = None
                      /\ e.error # None /\ e.error[1] # <<>>
                      /\ e.duration_ms = 0
        /\ \A j \in DOMAIN local[q].mcpLog :
               local[q].mcpLog[j].params.name \in VALID_TOOLS
        /\ local[q].pc \in {"think", "summary", "followup", "done"} =>
               Len(local[q].tool_trace)
                   = CallsBefore(local[q], TurnsDone(local[q]) + 1)
        /\ local[q].pc = "exec" =>
               Len(local[q].tool_trace)
                   = CallsBefore(local[q], TurnsDone(local[q]) + 1) + local[q].k - 1

\* C4 witness: an unknown tool was rejected, a later call of the same turn
\* was dispatched, and the next LM turn is running
C4_Witness ==
    \E q \in Tasks :
        /\ local[q].pc = "think"
        /\ local[q].iterations = 2
        /\ Len(local[q].tool_trace) = 2
        /\ local[q].tool_trace[1].tool_name \notin VALID_TOOLS
        /\ local[q].tool_trace[2].tool_name \in VALID_TOOLS
        /\ Len(local[q].mcpLog) = 1

\* the entry the claim expects for a failed execution
ErrorEntry(e) ==
    <<"<tool_error name=", e.tool_name, " code=", "error", ">">> \o e.error[1]
    \o <<"</tool_error>">>

\* C5: every failed execution of a turn whose messages were appended has its
\* <tool_error name="T" ...> entry in that turn's user message; and when the
\* next LM request is made every execution belongs to such a turn
C5_FailureReachesTranscript ==
    \A q \in Tasks :
        LET loc == local[q]
            done == TurnsDone(loc)
        IN /\ \A t \in 1..done :
                  LET from == CallsBefore(loc, t)
                      n == Len(TextualNames(loc.lmOut[t]))
                      msg == ResultsMessage(loc, t)
                  IN /\ msg.role = "user"
                     /\ Len(loc.tool_trace) >= from + n
                     /\ \A j \in 1..n :
                            ~loc.tool_trace[from + j].success =>
                                IsSubSeq(ErrorEntry(loc.tool_trace[from + j]), msg.content)
           /\ loc.pc \in {"think", "summary", "followup", "done"} =>
                  Len(loc.tool_trace) = CallsBefore(loc, done + 1)

\* C5 witness: the next LM request is out after a turn with an unknown tool
\* and a tool whose invocation failed
C5_Witness ==
    \E q \in Tasks :
        /\ local[q].pc = "think"
        /\ Len(local[q].tool_trace) = 2
        /\ ~local[q].tool_trace[1].success
        /\ ~local[q].tool_trace[2].success
        /\ local[q].tool_trace[2].tool_name \in VALID_TOOLS

\* the tool names of the entries of a tool-results message, in order
EntryNames(content) ==
    LET at == SelectSeq([i \in 1..Len(content) |-> i],
                        LAMBDA i : i > 1 /\ content[i - 1] \in {"<tool_result name=",
                                                                "<tool_error name="})
    IN [j \in 1..Len(at) |-> content[at[j]]]

\* the names the tool client was invoked with, in order
InvokedNames(loc) == [j \in 1..Len(loc.mcpLog) |-> loc.mcpLog[j].params.name]

\* the names of the recorded executions that went through the tool client
RecordedInvocations(loc) ==
    LET valid == SelectSeq(loc.tool_trace, LAMBDA e : e.tool_name \in VALID_TOOLS)
    IN [j \in 1..Len(valid) |-> valid[j].tool_name]

\* C6: the calls of a turn are dispatched one after the other in the order
\* of the text: the executions of a finished turn in tool_trace, and the
\* entries of its tool-results message, name the turn's calls in textual
\* order, one each; and the tool client is invoked for a call only when the
\* executions of all earlier calls are recorded
C6_SequentialTextualOrder ==
    \A q \in Tasks :
        LET loc == local[q]
            done == TurnsDone(loc)
            recorded == RecordedInvocations(loc)
        IN /\ \A t \in 1..done :
                  LET names == TextualNames(loc.lmOut[t])
                      from == CallsBefore(loc, t)
                  IN /\ names # <<>>
                     /\ Len(loc.tool_trace) >= from + Len(names)
                     /\ \A j \in 1..Len(names) :
                            loc.tool_trace[from + j].tool_name = names[j]
                     /\ EntryNames(ResultsMessage(loc, t).content) = names
           /\ loc.pc = "exec" =>
                  /\ loc.k <= Len(loc.calls)
                  /\ Len(loc.tool_trace) = CallsBefore(loc, done + 1) + loc.k - 1
                  /\ InvokedNames(loc) = recorded \o <<loc.calls[loc.k].name>>
           /\ loc.pc \in {"think", "summary", "followup", "done"} =>
                  /\ Len(loc.tool_trace) = CallsBefore(loc, done + 1)
                  /\ InvokedNames(loc) = recorded

\* C6 witness: two turns are finished, one of them with two calls of
\* different tools
C6_Witness ==
    \E q \in Tasks :
        /\ TurnsDone(local[q]) >= 2
        /\ \E t \in 1..TurnsDone(local[q]) :
               LET names == TextualNames(local[q].lmOut[t])
               IN Len(names) = 2 /\ names[1] # names[2] /\ names[1] \in VALID_TOOLS

\* C7 as claimed: every recorded ToolExecution has exactly one of result and
\* error, and success exactly when it is the result
C7_ResultXorError ==
    \A q \in Tasks :
        \A i \in DOMAIN local[q].tool_trace :
            LET e == local[q].tool_trace[i]
            IN /\ (e.result # None) # (e.error # None)
               /\ e.success = (e.result # None)

\* what the claim expects one successful execution to contribute
ExpectedSourcesOf(e) ==
    IF ~e.success \/ e.result = None THEN <<>>
    ELSE LET r == e.result[1]
         IN CASE e.tool_name = "web_search" ->
                     LET items == Get(r, "results", <<>>)
                     IN [n \in 1..Len(items) |->
                            [url |-> Get(items[n], "url", ""),
                             title |-> Get(items[n], "title", ""),
                             tool |-> "web_search"]]
              [] e.tool_name = "fetch_page" /\ r # EmptyDict ->
                     <<[url |-> Get(r, "url", ""), title |-> Get(r, "title", ""),
                        tool |-> "fetch_page"]>>
              [] e.tool_name = "get_note" ->
                     LET urls == Get(Get(r, "note", EmptyDict), "source_urls", <<>>)
                     IN [n \in 1..Len(urls) |->
                            [url |-> urls[n], title |-> "From saved note",
                             tool |-> "get_note"]]
              [] OTHER -> <<>>

RECURSIVE ExpectedRaw(_)
\* the contributions of a trace, concatenated in trace order
ExpectedRaw(trace) ==
    IF trace = <<>> THEN <<>>
    ELSE ExpectedSourcesOf(Head(trace)) \o ExpectedRaw(Tail(trace))

\* C8: the sources of a returned response are the contributions of the
\* successful executions in trace order, cut down to the first occurrence of
\* each non-empty URL: no empty URL, no URL twice, each source the first
\* contribution with its URL, every non-empty URL present, first
\* occurrences in order
C8_SourcesFirstOccurrence ==
    \A q \in Tasks :
        Returned(q) =>
            LET S == Resp(q).sources
                raw == ExpectedRaw(Resp(q).tool_trace)
                First(u) == CHOOSE n \in 1..Len(raw) :
                                raw[n].url = u /\ \A m \in 1..(n - 1) : raw[m].url # u
            IN /\ \A i \in 1..Len(S) : S[i].url # ""
               /\ \A i, j \in 1..Len(S) : i # j => S[i].url # S[j].url
               /\ \A i \in 1..Len(S) :
                      /\ \E n \in 1..Len(raw) : raw[n].url = S[i].url
                      /\ S[i] = raw[First(S[i].url)]
               /\ \A n \in 1..Len(raw) :
                      raw[n].url # "" => \E i \in 1..Len(S) : S[i].url = raw[n].url
               /\ \A i, j \in 1..Len(S) :
                      i < j => First(S[i].url) < First(S[j].url)

\* C8 witness: a response whose trace contributed a URL twice, an empty URL,
\* and sources of two tools
C8_Witness ==
    \E q \in Tasks :
        /\ Returned(q)
        /\ LET S == Resp(q).sources
               raw == ExpectedRaw(Resp(q).tool_trace)
           IN /\ Len(S) >= 3
              /\ Len(raw) > Len(S) + 1
              /\ \E n \in 1..Len(raw) : raw[n].url = ""
              /\ \E i, j \in 1..Len(S) : S[i].tool # S[j].tool

\* C9: the id generated when research() starts is the JSON-RPC id of every
\* request to the tool client, the request_id of every ToolExecution and the
\* request_id of the response
C9_OneRequestId ==
    \A q \in Tasks :
        Running(q) =>
            /\ local[q].rid0 >= 1
            /\ \A j \in DOMAIN local[q].mcpLog : local[q].mcpLog[j].id = local[q].rid0
            /\ \A i \in DOMAIN local[q].tool_trace :
                   local[q].tool_trace[i].request_id = local[q].rid0
            /\ Returned(q) => Resp(q).request_id = local[q].rid0

\* C9 witness: a second query returned after a rejected call and an invoked
\* one
C9_Witness ==
    \E q \in Tasks :
        /\ Returned(q)
        /\ local[q].rid0 = 2
        /\ local[q].mcpLog # <<>>
        /\ \E i \in DOMAIN Resp(q).tool_trace :
               Resp(q).tool_trace[i].tool_name \notin VALID_TOOLS

\* C10 as claimed: a research() call that ends with an exception or a
\* cancellation leaves conversation_history as it was before the call
C10_HistoryUnchangedOnFailure ==
    \A q \in Tasks : Raised(q) => conversation_history = local[q].hist0

\* C11 as claimed: a forced-summary request is made only when every one of
\* the MAX_TOOL_ITERATIONS loop turns yielded tool calls; a loop that ended
\* on a tool-less output makes none and returns that output as content
C11_SummaryOnlyAtCap ==
    \A q \in Tasks :
        LET loc == local[q]
        IN /\ (\E i \in DOMAIN loc.lmLog : loc.lmLog[i] = "summary") => EveryTurnCalled(loc)
           /\ (Returned(q) /\ ~EveryTurnCalled(loc)) =>
                  Resp(q).content = loc.lmOut[Len(loc.lmOut)]

\* the failures at the level of the tool server: a status other than 200, a
\* refused connection, a timeout
ServerFailures ==
    {[kind |-> "http", status |-> "500"], [kind |-> "ConnectError"],
     [kind |-> "TimeoutException"]}

\* C12: a tool invocation answered by a server-level failure does not make
\* research() raise: the step records a ToolExecution of that call with
\* success false and an error text, fires on_tool_complete(name, {}, false)
\* where the callback is given, and ends at the await of a later call of the
\* same turn or of the next LM request (a callback that raises is the only
\* thing that ends the query in such a step)
C12_ServerFailureIsPerCall ==
    [][\A q \in Tasks : \A reply \in ServerFailures :
          ToolReply(q, reply) =>
              LET old == local[q]
                  new == local'[q]
                  tc == old.calls[old.k]
                  n == Len(old.tool_trace)
              IN /\ new.pc = "raised" => new.exc = "CallbackError"
                 /\ old.cb.on_tool_complete # "raises" =>
                        /\ Len(new.tool_trace) > n
                        /\ new.tool_trace[n + 1].tool_name = tc.name
                        /\ new.tool_trace[n + 1].success = FALSE
                        /\ new.tool_trace[n + 1].result = None
                        /\ new.tool_trace[n + 1].error # None
                        /\ new.tool_trace[n + 1].error[1] # <<>>
                        /\ new.pc = "exec" =>
                               new.k > old.k /\ new.iterations = old.iterations
                        /\ new.pc # "exec" =>
                               \/ new.pc \in {"think", "summary"}
                                    /\ Len(new.lmLog) = Len(old.lmLog) + 1
                               \/ new.pc = "raised"
                 /\ old.cb.on_tool_complete = "ok" =>
                        new.cbLog[Len(old.cbLog) + 1]
                            = [ev |-> "on_tool_complete", name |-> tc.name,
                               result |-> <<EmptyDict>>, success |-> FALSE]
      ]_vars

\* C12 witness: the next LM request is out after a turn whose first call met
\* a refused connection and whose second call was then invoked and succeeded
C12_Witness ==
    \E q \in Tasks :
        /\ local[q].pc = "think"
        /\ Len(local[q].tool_trace) = 2
        /\ local[q].tool_trace[1].error = <<(<<"Cannot connect to MCP server">>)>>
        /\ local[q].tool_trace[2].success
        /\ Len(local[q].mcpLog) = 2

\* payloads that are not tool calls: not JSON, JSON but not an object, an
\* object without a non-empty string name, arguments that are not an object
InvalidPayloadTokens == {"{bad}", "[1]", "7", "{noname}", "{name:''}", "{args:1}"}

\* an LM output with at least one invalid payload and at least one valid one
MixedOutput(text) ==
    /\ \E i \in 1..Len(text) : text[i] \in InvalidPayloadTokens
    /\ TextualNames(text) # <<>>

\* C13: a loop output with invalid and valid regions is parsed to exactly its
\* valid calls in textual order: while its turn runs the calls to dispatch
\* are those, and a failure of the query in that turn comes after the parse;
\* once the turn is finished its executions and the entries of its
\* tool-results user message name those calls in order
C13_InvalidRegionsSkipped ==
    \A q \in Tasks :
        LET loc == local[q]
            done == TurnsDone(loc)
        IN \A t \in 1..Len(loc.lmOut) :
               (t <= loc.iterations /\ MixedOutput(loc.lmOut[t])) =>
                   LET names == TextualNames(loc.lmOut[t])
                       from == CallsBefore(loc, t)
                   IN /\ t > done =>
                          /\ loc.pc \in {"exec", "raised"}
                          /\ (loc.pc = "exec" \/ loc.exc # "CallbackError") =>
                                 [j \in 1..Len(loc.calls) |-> loc.calls[j].name] = names
                      /\ t <= done =>
                          /\ Len(loc.tool_trace) >= from + Len(names)
                          /\ \A j \in 1..Len(names) :
                                 loc.tool_trace[from + j].tool_name = names[j]
                          /\ ResultsMessage(loc, t).role = "user"
                          /\ EntryNames(ResultsMessage(loc, t).content) = names

\* C13 witness: a query returned whose first output had the four kinds of
\* invalid payload and two valid calls, both dispatched
C13_Witness ==
    \E q \in Tasks :
        /\ Returned(q)
        /\ local[q].lmOut[1] = ManyBadTwoGood
        /\ Len(Resp(q).tool_trace) = 2
        /\ Resp(q).tool_trace[1].tool_name = "get_note"
        /\ Resp(q).tool_trace[2].tool_name = "web_search"

\* the pieces tool-call syntax is made of: the tags, whole or in part, and
\* the payloads
SyntaxPieces ==
    {OPEN, OPEN_UC, CLOSE, OPEN_HEAD, CLOSE_HEAD, TAG_TAIL}
    \cup DOMAIN JsonObjects \cup JsonNonObjects \cup {"{bad}"}

\* C14 as claimed: no chunk research_stream() has yielded holds any part of
\* tool-call syntax
C14_NoSyntaxYielded ==
    \A q \in Tasks :
        \A n \in DOMAIN local[q].yielded :
            \A i \in DOMAIN local[q].yielded[n] :
                local[q].yielded[n][i] \notin SyntaxPieces

\* C15 as claimed: every response carries exactly three follow-up questions
C15_ThreeFollowups ==
    \A q \in Tasks : Returned(q) => Len(Resp(q).followup_questions) = 3

\* replies of the follow-up call that hold no usable question line
UnusableFollowups == {lines \in FollowupReplies : CollectQuestions(lines, <<>>) = <<>>}

\* what research() returns when the follow-up call gave nothing
DegradedResponse(loc, resp) ==
    /\ resp.content = loc.final_response
    /\ resp.tool_trace = loc.tool_trace
    /\ resp.sources = loc.deduplicated_sources
    /\ resp.followup_questions = fallback_followup_questions(loc.query)

\* C16: a follow-up call that raises (the typed LM error or any other
\* exception) or whose reply is unusable makes research() return, in that
\* step, the content, trace and sources it had with the fallback questions
C16_FollowupFailureHidden ==
    [][\A q \in Tasks :
          (\/ \E e \in {"OllamaError", "ValueError"} : FollowupFail(q, e)
           \/ \E lines \in UnusableFollowups : FollowupReply(q, lines))
          => /\ local'[q].pc = "done"
             /\ DegradedResponse(local[q], local'[q].response[1])]_vars

C16_Witness ==
    \E q \in Tasks :
        /\ Returned(q)
        /\ variety < MaxVariety
        /\ Resp(q).tool_trace # <<>>
        /\ Resp(q).sources # <<>>
        /\ Resp(q).followup_questions = fallback_followup_questions(local[q].query)

\* the tool events among the callback events seen
ToolEvents(log) == SelectSeq(log, LAMBDA e : e.ev # "on_text_chunk")
StartsIn(log) == SelectSeq(log, LAMBDA e : e.ev = "on_tool_start")

RECURSIVE EventsOfTrace(_)
\* the events the finished dispatches of a trace stand for: a start and a
\* complete for a whitelisted call, a lone complete for a rejected name
EventsOfTrace(trace) ==
    IF trace = <<>> THEN <<>>
    ELSE LET e == Head(trace)
             complete ==
                 [ev |-> "on_tool_complete", name |-> e.tool_name,
                  result |-> IF e.success THEN e.result ELSE Some(EmptyDict),
                  success |-> e.success]
         IN (IF e.tool_name \in VALID_TOOLS
             THEN <<[ev |-> "on_tool_start", name |-> e.tool_name,
                     arguments |-> e.arguments], complete>>
             ELSE <<complete>>)
            \o EventsOfTrace(Tail(trace))

\* C17: with both tool callbacks given, the tool events of a run of research()
\* are, call by call in dispatch order, one on_tool_start(name, arguments)
\* and then one on_tool_complete(name, result or {}, success) with the
\* success of the call's ToolExecution, the start of the call being awaited
\* last; every start is followed by one request to the tool client for the
\* same name and arguments, and no request is made without its start
C17_StartThenComplete ==
    \A q \in Tasks :
        LET loc == local[q]
            starts == StartsIn(loc.cbLog)
        IN /\ (loc.cb.on_tool_start # "none" /\ loc.pc # "idle")
              => /\ Len(loc.mcpLog) <= Len(starts)
                 /\ Len(starts) <= Len(loc.mcpLog) + 1
                 /\ \A i \in DOMAIN loc.mcpLog :
                        /\ loc.mcpLog[i].params.name = starts[i].name
                        /\ loc.mcpLog[i].params.arguments = starts[i].arguments
           /\ (/\ loc.cb.on_tool_start = "ok"
               /\ loc.cb.on_tool_complete = "ok"
               /\ loc.pc \notin {"idle", "raised"})
              => /\ ToolEvents(loc.cbLog)
                      = EventsOfTrace(loc.tool_trace)
                        \o (IF loc.pc = "exec" THEN <<StartEvent(loc.calls[loc.k])>>
                            ELSE <<>>)
                 /\ Len(starts) = Len(loc.mcpLog)

C17_Witness ==
    \E q \in Tasks :
        /\ Returned(q)
        /\ local[q].cb = NominalCallbacks
        /\ \E i, j \in DOMAIN local[q].tool_trace :
               /\ i < j
               /\ local[q].tool_trace[i].tool_name \in VALID_TOOLS
               /\ local[q].tool_trace[j].tool_name \in VALID_TOOLS
               /\ local[q].tool_trace[i].success
               /\ ~local[q].tool_trace[j].success
        /\ Len(ToolEvents(local[q].cbLog)) >= 4

\* the orchestrator fields C18 names
Fields == <<model, research_mode, fetch_extract_mode, temperature, conversation_history>>

\* C18: a setter given an invalid value leaves all five fields as they were;
\* given a valid value it sets its own field to the value and leaves the
\* other four as they were (a setter has no way to raise in either case)
C18_SettersValidate ==
    [][/\ \A mode \in ModeArgs :
              set_research_mode(mode)
              => IF mode \in {"quick", "deep"}
                 THEN /\ research_mode' = mode
                      /\ UNCHANGED <<model, fetch_extract_mode, temperature,
                                     conversation_history>>
                 ELSE UNCHANGED Fields
       /\ \A mode \in ExtractArgs :
              set_fetch_extract_mode(mode)
              => IF mode \in {"text", "markdown"}
                 THEN /\ fetch_extract_mode' = mode
                      /\ UNCHANGED <<model, research_mode, temperature,
                                     conversation_history>>
                 ELSE UNCHANGED Fields
       /\ \A name \in ModelArgs :
              set_model(name)
              => IF name # ""
                 THEN /\ model' = name
                      /\ UNCHANGED <<research_mode, fetch_extract_mode, temperature,
                                     conversation_history>>
                 ELSE UNCHANGED Fields
       /\ \A arg \in TemperatureArgs :
              set_temperature(arg)
              => IF arg \in 0..10
                 THEN /\ temperature' = arg
                      /\ UNCHANGED <<model, research_mode, fetch_extract_mode,
                                     conversation_history>>
                 ELSE UNCHANGED Fields]_vars

\* an out-of-range temperature has just been refused while a query that was
\* started in another research mode is running
C18_Witness ==
    /\ last_call = Called("set_temperature", "", 11)
    /\ temperature = 7
    /\ model = "llama3"
    /\ research_mode = "deep"
    /\ Running(1)
    /\ local[1].messages[1] = Msg("system", build_system_prompt("quick"))
    /\ conversation_history = <<>>

\* C19 as claimed: the three settings are always within their ranges
C19_SettingsInRange ==
    /\ research_mode \in {"quick", "deep"}
    /\ fetch_extract_mode \in {"text", "markdown"}
    /\ temperature \in 0..10

\* C20: has_incomplete is true exactly when the text holds an opening tag
\* that no closing tag follows; the empty text gives no calls, empty
\* text_before and text_after and has_incomplete false; a lone opening tag
\* gives no calls and has_incomplete true
C20_HasIncomplete ==
    parse_result # None
    => LET text == parse_input
           r == parse_result[1]
       IN /\ r.has_incomplete
             <=> \E i \in DOMAIN text :
                     /\ text[i] \in {OPEN, OPEN_UC}
                     /\ \A j \in DOMAIN text : j > i => text[j] # CLOSE
          /\ text = <<>>
             => r = [tool_calls |-> <<>>, text_before |-> <<>>, text_after |-> <<>>,
                     has_incomplete |-> FALSE]
          /\ text = <<OPEN>> => r.tool_calls = <<>> /\ r.has_incomplete

C20_Witness ==
    /\ parse_input = <<OPEN, "{get_note}", CLOSE, OPEN_UC>>
    /\ parse_result # None
    /\ Len(parse_result[1].tool_calls) = 1
    /\ parse_result[1].has_incomplete

\* the text of a token sequence: what is left without tags and whitespace
PlainText(text) == SelectSeq(text, LAMBDA t : ~IsOpenTag(t) /\ ~IsCloseTag(t) /\ t # WS)

RECURSIVE Bodies(_, _)
\* the bodies of the complete regions of a text, in order
Bodies(text, ms) ==
    IF ms = <<>> THEN <<>>
    ELSE RegionPayload(text, Head(ms)) \o Bodies(text, Tail(ms))

\* C21 as claimed: text_before, the region bodies and text_after together
\* hold all the text of the parsed input
C21_ParseLosesNothing ==
    parse_result # None
    => PlainText(parse_result[1].text_before
                 \o Bodies(parse_input, Regions(parse_input, 1))
                 \o parse_result[1].text_after)
       = PlainText(parse_input)

\* the numbers of the markers of a content
NumbersIn(text) == {CitationNumbers[text[i]] : i \in {j \in DOMAIN text : IsCitation(text[j])}}

\* C22: renumber_citations maps the distinct marker numbers, in ascending
\* order, onto 1..m, rewrites every marker by that mapping and leaves the
\* rest of the content alone; applied to its own result it returns the same
\* content with the identity mapping
C22_RenumberIdempotent ==
    [][Renumber
       => LET old == NumbersIn(cited_content)
              m == Cardinality(old)
          IN /\ DOMAIN citation_mapping' = old
             /\ {citation_mapping'[n] : n \in old} = 1..m
             /\ \A a, b \in old : a < b => citation_mapping'[a] < citation_mapping'[b]
             /\ Len(cited_content') = Len(cited_content)
             /\ \A i \in DOMAIN cited_content :
                    IF IsCitation(cited_content[i])
                    THEN cited_content'[i]
                         = FormatCitation(citation_mapping'[CitationNumbers[cited_content[i]]])
                    ELSE cited_content'[i] = cited_content[i]
             /\ NumbersIn(cited_content') = 1..m
             /\ citation_op = "renumber_citations"
                => /\ cited_content' = cited_content
                   /\ citation_mapping' = [n \in 1..m |-> n]]_vars

C22_Witness ==
    /\ citation_op = "renumber_citations"
    /\ cited_content = <<"[2]", "[1]", "[2]">>
    /\ citation_mapping = (3 :> 1) @@ (7 :> 2)

\* C23 as claimed: a block is appended exactly when the content has none yet
C23_AppendsIffNoBlock ==
    [][AddCitations
       => (cited_content' # cited_content <=> ~HasSourceBlock(cited_content))]_vars

\* C23, amended: add_citations_to_content returns the content unchanged when
\* it has a sources block or the source list is empty; otherwise it appends,
\* to the right-stripped content, a block with the header and one numbered
\* line per source; applied to its own result it changes nothing
C23_AddSourcesIdempotent ==
    [][AddCitations
       => /\ IF HasSourceBlock(cited_content) \/ cited_sources = <<>>
             THEN cited_content' = cited_content
             ELSE /\ cited_content'
                         = RStrip(cited_content) \o <<NL, NL, "**Sources:**">>
                           \o CitationLines(cited_sources, 1)
                  /\ HasSourceBlock(cited_content')
                  /\ Cardinality({i \in DOMAIN cited_content' :
                                     i > Len(RStrip(cited_content)) + 3
                                     /\ IsCitation(cited_content'[i])})
                     = Len(cited_sources)
          /\ citation_op = "add_citations_to_content" => cited_content' = cited_content]_vars

C23_Witness ==
    /\ citation_op = "add_citations_to_content"
    /\ Len(cited_sources) = 3
    /\ cited_content = <<"x", "[7]", NL, NL, "**Sources:**", NL, "[1]", WS, "[", "T1", "](",
                         "u1", ")", NL, "[2]", WS, "[", "u2", "](", "u2", ")", NL, "[3]",
                         WS, "T3">>

\* C24 as claimed: while a query awaits its first LM reply, the messages it
\* sent are the system prompt for the orchestrator's research_mode, the
\* history as it was stored, and the query
C24_FirstMessageList ==
    \A q \in Tasks :
        (local[q].pc \in {"think", "s_stream", "s_yield"} /\ local[q].iterations = 1)
        => local[q].messages
           = <<Msg("system", build_system_prompt(research_mode))>>
             \o local[q].hist0
             \o <<Msg("user", local[q].query)>>

\* the LM outputs of the loop turns of a run of research(), without the
\* forced summary's
LoopOutputs(loc) ==
    LET asked == Cardinality({i \in DOMAIN loc.lmLog : loc.lmLog[i] = "think"})
        answered == IF loc.pc = "think" THEN asked - 1 ELSE asked
    IN SubSeq(loc.lmOut, 1, answered)

\* C25: the transcript after the initial messages is, for each finished turn
\* whose output held a parsed tool call, the assistant message with that
\* output verbatim and one user message with one formatted result per call
\* of the turn, and nothing for a turn without a parsed call (after the loop
\* the force-summary prompt may follow); and a step of a running query only
\* appends to the transcript
C25_TwoMessagesPerTurn ==
    /\ [](\A q \in Tasks :
            local[q].pc \in {"think", "exec", "summary", "followup", "done"}
            => LET loc == local[q]
                   called == SelectSeq(LoopOutputs(loc),
                                       LAMBDA R : parse_tool_calls(R) # <<>>)
                   done == IF loc.pc = "exec" THEN Len(called) - 1 ELSE Len(called)
                   body == SubSeq(loc.messages, PrefixLen(loc) + 1, Len(loc.messages))
                   forced == \E i \in DOMAIN loc.lmLog : loc.lmLog[i] = "summary"
               IN /\ Len(body) = 2 * done + (IF forced THEN 1 ELSE 0)
                  /\ forced => body[Len(body)] = Msg("user", FORCE_SUMMARY_PROMPT)
                  /\ \A t \in 1..done :
                         /\ body[2 * t - 1] = Msg("assistant", called[t])
                         /\ body[2 * t].role = "user"
                         /\ body[2 * t].content[1] = "Tool results:\n\n"
                         /\ Len(EntryNames(body[2 * t].content))
                            = Len(parse_tool_calls(called[t])))
    /\ [][\A q \in Tasks :
            (local[q].pc \notin {"idle", "done", "raised"} /\ local'[q].pc # "idle")
            => IsPrefix(local[q].messages, local'[q].messages)]_vars

C25_Witness ==
    \E q \in Tasks :
        /\ Returned(q)
        /\ Len(local[q].lmOut) = 4
        /\ Len(parse_tool_calls(local[q].lmOut[1])) = 2
        /\ parse_tool_calls(local[q].lmOut[4]) = <<>>
        /\ Len(local[q].messages) = PrefixLen(local[q]) + 6
        /\ ~(\E i \in DOMAIN local[q].lmLog : local[q].lmLog[i] = "summary")

\* the content research() takes from a forced-summary reply
SummaryContent(R) ==
    LET at == {i \in DOMAIN R : R[i] = OPEN}
        kept == IF at = {} THEN R
                ELSE Strip(SubSeq(R, 1, (CHOOSE i \in at : \A j \in at : i <= j) - 1))
    IN IF kept = <<>> THEN DIAG_EMPTY_SUMMARY ELSE kept

\* C26: the step that receives the forced-summary reply sets the content to
\* the reply cut at its first <tool_call> tag, or to the diagnostic when that
\* is empty; the step in which the forced-summary call raises an exception
\* sets it to the other diagnostic; either step goes on to the follow-up
\* call, and from the forced summary on no tool is dispatched and no tool
\* callback fires; a query that returns after a forced summary returns that
\* content, which is not empty
C26_ForcedSummaryContent ==
    /\ [][\A q \in Tasks :
            /\ \A R \in LMOutputs :
                   SummaryReply(q, R)
                   => /\ local'[q].pc = "followup"
                      /\ local'[q].final_response = SummaryContent(R)
            /\ \A e \in {"OllamaError", "ValueError"} :
                   SummaryFail(q, e)
                   => /\ local'[q].pc = "followup"
                      /\ local'[q].final_response = DIAG_SUMMARY_FAILED
            /\ (local[q].pc \in {"summary", "followup"} /\ local'[q].pc # "idle")
               => /\ local'[q].mcpLog = local[q].mcpLog
                  /\ local'[q].tool_trace = local[q].tool_trace
                  /\ local'[q].cbLog = local[q].cbLog
                  /\ local'[q].pc \in {"followup", "done", "raised"}]_vars
    /\ [](\A q \in Tasks :
            (Returned(q) /\ \E i \in DOMAIN local[q].lmLog : local[q].lmLog[i] = "summary")
            => /\ Resp(q).content = local[q].final_response
               /\ Resp(q).content # <<>>
               /\ ~Contains(Resp(q).content, OPEN))

C26_Witness ==
    \E q \in Tasks :
        /\ Returned(q)
        /\ local[q].lmOut[Len(local[q].lmOut)] = AnswerThenCall
        /\ local[q].lmLog[Len(local[q].lmLog) - 1] = "summary"
        /\ Resp(q).content = <<"x">>

\* the chunks on_text_chunk has received, in order
ChunksSeen(loc) ==
    LET events == SelectSeq(loc.cbLog, LAMBDA e : e.ev = "on_text_chunk")
    IN [i \in DOMAIN events |-> events[i].chunk]

\* C27: with on_text_chunk given, the chunks it has received are, in every
\* state of the run, exactly the chunks of the first LM output in stream
\* order (none while the first reply is awaited), whatever turns, forced
\* summary and follow-up call have followed; and they all came before the
\* first tool event
C27_ChunksOnlyFirstThink ==
    \A q \in Tasks :
        (local[q].pc # "idle" /\ local[q].cb.on_text_chunk = "ok")
        => LET loc == local[q]
               seen == ChunksSeen(loc)
           IN /\ seen = IF loc.lmOut = <<>> THEN <<>> ELSE loc.lmOut[1]
              /\ \A i \in 1..Len(seen) : loc.cbLog[i].ev = "on_text_chunk"

C27_Witness ==
    \E q \in Tasks :
        /\ Returned(q)
        /\ local[q].cb = NominalCallbacks
        /\ ChunksSeen(local[q]) = NominalLM
        /\ Len(local[q].lmOut) = MAX_TOOL_ITERATIONS + 1
        /\ local[q].lmLog[Len(local[q].lmLog)] = "followup"
        /\ Len(ToolEvents(local[q].cbLog)) = 2 * MAX_TOOL_ITERATIONS

\* C28 as claimed: an exception raised by a callback never ends research()
C28_CallbacksGuarded ==
    \A q \in Tasks : ~(Raised(q) /\ local[q].exc = "CallbackError")

\* C29 as claimed: while research_stream() awaits the tool client, the
\* on_tool_start events for whitelisted tools are as many as the requests
\* made to the tool client, one per dispatched call
C29_StreamStartOnce ==
    \A q \in Tasks :
        (local[q].pc = "s_exec" /\ local[q].cb.on_tool_start = "ok")
        => Len(SelectSeq(StartsIn(local[q].cbLog), LAMBDA e : e.name \in VALID_TOOLS))
           = Len(local[q].mcpLog)

\* C30 as claimed: with both tool callbacks given, every on_tool_complete
\* event of research() comes right after the on_tool_start event of the same
\* call
C30_CompleteHasStart ==
    \A q \in Tasks :
        (local[q].cb.on_tool_start = "ok" /\ local[q].cb.on_tool_complete = "ok"
         /\ local[q].pc \in {"think", "exec", "summary", "followup", "done"})
        => LET events == ToolEvents(local[q].cbLog)
           IN \A i \in DOMAIN events :
                  events[i].ev = "on_tool_complete"
                  => /\ i > 1
                     /\ events[i - 1].ev = "on_tool_start"
                     /\ events[i - 1].name = events[i].name

\* C31: in every step that sends a request to the tool client, the request
\* names the call as parsed; its arguments are the parsed arguments, with
\* extract_mode set to the orchestrator's fetch_extract_mode when the call
\* is fetch_page and the parsed arguments have no extract_mode
C31_InjectionOnlyWhereNamed ==
    [][\A q \in Tasks :
          Len(local'[q].mcpLog) = Len(local[q].mcpLog) + 1
          => LET sent == local'[q].mcpLog[Len(local'[q].mcpLog)].params
                 parsed == parse_tool_calls(local'[q].llm_response)[local'[q].k]
             IN /\ sent.name = parsed.name
                /\ sent.arguments
                   = IF parsed.name = "fetch_page"
                        /\ "extract_mode" \notin DOMAIN parsed.arguments
                     THEN [key \in DOMAIN parsed.arguments \cup {"extract_mode"} |->
                              IF key = "extract_mode" THEN fetch_extract_mode
                              ELSE parsed.arguments[key]]
                     ELSE parsed.arguments]_vars

\* C31 witness: the markdown default was injected into a fetch_page call
\* that came without extract_mode
C31_Witness ==
    /\ local[1].pc = "exec"
    /\ fetch_extract_mode = "markdown"
    /\ local[1].llm_response = UnknownThenFetch
    /\ local[1].mcpLog[Len(local[1].mcpLog)].params
       = [name |-> "fetch_page", arguments |-> [url |-> "u1", extract_mode |-> "markdown"]]

\* the LM requests the loop of a run has made
ThinkRequests(loc) == Cardinality({i \in DOMAIN loc.lmLog : loc.lmLog[i] = "think"})

\* C32: a run of research() makes at most MAX_TOOL_ITERATIONS LM requests
\* from its loop and finishes at most that many turns with tool calls, and,
\* its LM requests and tool invocations all being answered, it ends by
\* returning a response or by raising
C32_ResearchTerminates ==
    /\ [](\A q \in Tasks :
            /\ ThinkRequests(local[q]) <= MAX_TOOL_ITERATIONS
            /\ local[q].iterations <= MAX_TOOL_ITERATIONS
            /\ Running(q) /\ local[q].pc # "raised"
               => TurnsDone(local[q]) <= MAX_TOOL_ITERATIONS)
    /\ Pending(1) ~> (local[1].pc \in {"done", "raised"})

C32_Witness ==
    /\ Returned(1)
    /\ ThinkRequests(local[1]) = MAX_TOOL_ITERATIONS
    /\ TurnsDone(local[1]) = MAX_TOOL_ITERATIONS
    /\ local[1].lmLog[MAX_TOOL_ITERATIONS + 1] = "summary"

\* the POSTs of the chat() call that failed to connect or timed out
Transient(outcome) == outcome \in {"ConnectError", "TimeoutException"}

\* C33: chat() posts at most max_retries times; every POST before the last
\* one it made ended in a connection failure or a timeout; it stops on such
\* a failure only at the max_retries-th POST, raising OllamaError with
\* ollama_unavailable for a connection failure and ollama_timeout for a
\* timeout; a 404 or another non-200 status raises OllamaError at that POST,
\* and a 200 is returned at that POST
C33_ChatRetries ==
    LET n == Len(ollama.posts)
        last == ollama.posts[n]
    IN /\ n <= ollama.max_retries
       /\ \A i \in 1..(n - 1) : Transient(ollama.posts[i])
       /\ ollama.pc = "post" => n = ollama.attempt /\ n < ollama.max_retries
       /\ ollama.pc = "sleep" => n = ollama.attempt + 1 /\ n < ollama.max_retries
                                 /\ Transient(last)
       /\ n > 0 /\ Transient(last) /\ n < ollama.max_retries
          => ollama.pc \in {"sleep", "post"}
       /\ n > 0 /\ last = "ConnectError" /\ n = ollama.max_retries
          => ollama.pc = "raised" /\ ollama.exc = "OllamaError"
             /\ ollama.code = "ollama_unavailable"
       /\ n > 0 /\ last = "TimeoutException" /\ n = ollama.max_retries
          => ollama.pc = "raised" /\ ollama.exc = "OllamaError"
             /\ ollama.code = "ollama_timeout"
       /\ n > 0 /\ last = "404"
          => ollama.pc = "raised" /\ ollama.exc = "OllamaError"
             /\ ollama.code = "ollama_model_not_found"
       /\ n > 0 /\ last = "500"
          => ollama.pc = "raised" /\ ollama.exc = "OllamaError"
             /\ ollama.code = "ollama_unavailable"
       /\ n > 0 /\ last = "200" => ollama.pc = "returned"

C33_Witness ==
    /\ ollama.max_retries = 3
    /\ ollama.posts = <<"ConnectError", "TimeoutException", "TimeoutException">>
    /\ ollama.pc = "raised"
    /\ ollama.code = "ollama_timeout"

\* C34 as claimed: call_tool returns ToolResult(success=false, error=message)
\* exactly when the server answered HTTP 200 with a JSON-RPC error object,
\* ToolResult(success=true, data=result) when it answered HTTP 200 without
\* one, and raises MCPError for another status, a connection failure or a
\* timeout; the request carries the caller's request_id as its id
C34_ProtocolVersusTransport ==
    /\ mcp.pc = "over"
       => LET reply == mcp.result[1].reply
              outcome == mcp.result[1].outcome
              HasErrorObject == /\ reply.kind = "http"
                                /\ reply.status = "200"
                                /\ "error" \in DOMAIN reply.body
          IN /\ (outcome.kind = "ToolResult" /\ ~outcome.success) <=> HasErrorObject
             /\ HasErrorObject => outcome.error # None
             /\ reply.kind = "http" /\ reply.status = "200" /\ ~HasErrorObject
                => /\ outcome.kind = "ToolResult"
                   /\ outcome.success
                   /\ outcome.data = IF "result" \in DOMAIN reply.body
                                     THEN Some(reply.body["result"]) ELSE None
             /\ \/ reply.kind = "http" /\ reply.status # "200"
                \/ reply.kind \in {"ConnectError", "TimeoutException"}
                => outcome.kind = "raise" /\ outcome.exc = "MCPError"
    /\ mcp.pc # "idle" /\ mcp.request_id # 0
       => mcp.request[1].id = mcp.request_id

\* C35 as claimed: an OllamaClient or MCPClient never has more than one HTTP
\* client open, and when it holds none (as after close() or __aexit__) none
\* of the HTTP clients it created is open
C35_HttpClientsReleased ==
    /\ Cardinality(ollama.open) <= 1
    /\ ollama.client = 0 => ollama.open = {}
    /\ Cardinality(mcp.open) <= 1
    /\ mcp.client = 0 => mcp.open = {}

\* C36 as claimed: research() of the API raises nothing when the orchestrator
\* raised an exception, but returns an ApiResponse without success and
\* without data whose error has a code and the exception's message; and when
\* the orchestrator returned a response it returns an ApiResponse with
\* success whose data are that response's content, sources, tool trace,
\* can_save_as_note and suggested title
C36_ApiNeverRaises ==
    /\ api.pc = "raised" => ~IsException(api.cause)
    /\ api.pc = "returned" /\ api.cause # ""
       => LET r == api.response[1]
          IN /\ ~r.success
             /\ r.data = None
             /\ r.error # None
             /\ r.error[1].code \in {ErrorCodes[a] : a \in DOMAIN ErrorCodes}
             /\ r.error[1].message = api.cause
    /\ api.pc = "returned" /\ api.cause = ""
       => LET r == api.response[1]
              response == Resp(1)
          IN /\ r.success
             /\ r.error = None
             /\ r.data[1].content = response.content
             /\ r.data[1].sources = response.sources
             /\ Len(r.data[1].tool_trace) = Len(response.tool_trace)
             /\ r.data[1].can_save = response.can_save_as_note
             /\ r.data[1].suggested_title = response.suggested_title

\* C37: whatever research(), research_stream() and clear_history() calls
\* were made, conversation_history has an even number of messages, a user
\* message at every odd place and an assistant message at every even place;
\* and a clear_history() call leaves the history empty and every other field
\* of the orchestrator as it was
C37_HistoryInPairs ==
    /\ [](/\ Len(conversation_history) % 2 = 0
          /\ \A i \in DOMAIN conversation_history :
                 conversation_history[i].role
                 = IF i % 2 = 1 THEN "user" ELSE "assistant")
    /\ [][last_call' # last_call /\ last_call' = Called("clear_history", "", 0)
          => /\ conversation_history' = <<>>
             /\ UNCHANGED <<request_id, research_mode, fetch_extract_mode, model,
                            temperature>>]_vars

C37_Witness ==
    /\ last_call = Called("clear_history", "", 0)
    /\ Len(conversation_history) = 2
    /\ nextId = 2
    /\ \A q \in Tasks : local[q].pc = "idle"

\* C38: with two research() calls overlapping, the history always has an
\* even number of messages, user at the odd and assistant at the even
\* places, and every step that changes it appends one whole pair: the query
\* of a call on its way into the follow-up request, then that call's answer
C38_PairsUnderOverlap ==
    /\ [](/\ Len(conversation_history) % 2 = 0
          /\ \A i \in DOMAIN conversation_history :
                 conversation_history[i].role
                 = IF i % 2 = 1 THEN "user" ELSE "assistant")
    /\ [][conversation_history' # conversation_history
          => \E q \in Tasks :
                 /\ local[q].pc # "followup"
                 /\ local'[q].pc = "followup"
                 /\ conversation_history'
                    = conversation_history
                      \o <<Msg("user", local'[q].query),
                           Msg("assistant", local'[q].final_response)>>]_vars

\* both calls were under way before either appended, and both have appended
C38_Witness ==
    /\ Len(conversation_history) = 4
    /\ \A q \in Tasks : local[q].pc \in {"followup", "done"} /\ local[q].hist0 = <<>>

\* C39 as claimed: in the message list of every LM request of research(), of
\* a loop turn or for the forced summary, the first message is the only
\* system message, the last message is a user message, and from the second
\* message on no two neighbours have the same role
C39_RolesAlternate ==
    \A q \in Tasks :
        local[q].pc \in {"think", "summary"}
        => LET messages == local[q].messages
               n == Len(messages)
           IN /\ n >= 2
              /\ messages[1].role = "system"
              /\ \A i \in 2..n : messages[i].role \in {"user", "assistant"}
              /\ messages[n].role = "user"
              /\ \A i \in 2..(n - 1) : messages[i].role # messages[i + 1].role

\* C39, amended: in every such message list the first message is the only
\* system message and the last one is a user message; in the list of a loop
\* turn no two neighbours after the system message have the same role; in
\* the list of the forced summary the same holds up to the last message but
\* one, which is a user message (the query or the tool results) followed by
\* the user message asking for the summary
C39_RolesAlternateInLoop ==
    \A q \in Tasks :
        local[q].pc \in {"think", "summary"}
        => LET messages == local[q].messages
               n == Len(messages)
               m == IF local[q].pc = "think" THEN n ELSE n - 1
           IN /\ m >= 2
              /\ messages[1].role = "system"
              /\ \A i \in 2..n : messages[i].role \in {"user", "assistant"}
              /\ messages[n].role = "user"
              /\ messages[m].role = "user"
              /\ \A i \in 2..(m - 1) : messages[i].role # messages[i + 1].role
              /\ local[q].pc = "summary" => messages[n].content = FORCE_SUMMARY_PROMPT

\* the summary request after five turns with tool calls
C39_Witness ==
    /\ local[1].pc = "summary"
    /\ local[1].iterations = MAX_TOOL_ITERATIONS
    /\ Len(local[1].messages) = PrefixLen(local[1]) + 2 * MAX_TOOL_ITERATIONS + 1

====
